---- MODULE Spec2Model ----
(***************************************************************************)
(* The worker thread of the graphical fan control interface (src/gui.rs):  *)
(* one thread owns the controller, takes commands from the command channel *)
(* (or a Refresh on the 1.5 s receive timeout), calls the controller and   *)
(* answers on the response channel.  The frontend (FanControlApp) sends    *)
(* SetPwm and SetCurve commands and drains the responses.                  *)
(*                                                                         *)
(* A controller call is in flight from the step that starts it to the step *)
(* in which it returns; its result (Ok or Err) is chosen when it returns.  *)
(***************************************************************************)
EXTENDS Integers, Sequences, FiniteSets, TLC

\* ------------------------------------------------------------------ bounds

\* Commands the frontend sends in one run.
MaxSends == 2

\* Responses the frontend may leave unread before the model stops taking
\* further receive timeouts (the channel itself is unbounded).
MaxBacklog == 1

\* ------------------------------------------------------------- vocabulary

\* Fan ids as the controller reports them ("fan<N>").
Fans == {"fan0", "fan1"}

\* Duty values of the slider (u8): auto (0), a mid value, full speed (255).
Duties == {0, 150, 255}

NoFan == "none"

VARIABLES
    connected,      \* the frontend is alive: command_tx and response_rx exist
    command_rx,     \* command channel: commands sent and not yet received
    response_rx,    \* response channel: responses sent and not yet drained
    pc,             \* the worker's position in spawn_worker's closure
    command,        \* the command the worker is processing
    held_pwm,       \* the worker's held_pwm map: fan id -> duty
    todo,           \* held_pwm entries the Refresh loop has yet to visit
    inflight,       \* controller calls started and not yet returned
    fans,           \* FanControlApp.fans is non-empty (a FanData arrived)
    fan_curves,     \* FanControlApp.fan_curves is non-empty (CurveData arrived)
    cycle,          \* history of the cycle in progress: calls made, responses
    last_ok,        \* history: {duty} of the last SetPwm that succeeded, per fan
    ever_held,      \* history: fans that were ever inserted in held_pwm
    n_sent,         \* history: commands sent by the frontend
    n_taken,        \* history: commands received by the worker
    unread,         \* history: responses enqueued minus responses drained
    rx_seq,         \* history: the last command whose response was drained
    returned,       \* the call under study and what it returned
    scripts,        \* the scripts ps_command has run that write to the hardware
    curve,          \* the FanCurve handed to validate_curve / set_fan_curve
    range,          \* the FanRpmRange the conversions are given
    duty,           \* the pwm (u8) handed to pwm_to_rpm
    target_rpm,     \* what pwm_to_rpm returned ({}: not called yet)
    output,         \* the text ps_command returns to discover(), as lines
    fan_ranges,     \* LenovoFanController.fan_ranges
    sysfs,          \* the files under LinuxFanController.hwmon_base
    target,         \* the fan id handed to LinuxFanController::set_pwm
    written,        \* the writes set_pwm has attempted: <<path, value>>, in order
    edit_points,    \* the curve editor's rows: (temp_str, rpm_str) as typed
    status_message, \* FanControlApp.status_message after "Apply Curve"
    curve_commands, \* the SetCurve commands sent and not yet received: their curves
    curve_calls,    \* the curves the worker handed to controller.set_fan_curve
    curve_responses, \* the responses the SetCurve arm has sent
    full_speed      \* the firmware's full-speed flag, as Fan_Set_FullSpeed left it

\* The controller backends and the pure functions under them: the worker
\* loop's specifications hold them fixed, their own specifications vary them.
call_vars == <<returned, scripts>>
curve_vars == <<curve>>
pwm_vars == <<range, duty, target_rpm>>
parse_vars == <<output, fan_ranges>>
linux_vars == <<sysfs, target, written>>
edit_vars == <<edit_points, status_message, curve_commands, curve_calls, curve_responses>>
hw_vars == <<full_speed>>

lib_vars == <<call_vars, curve_vars, pwm_vars, parse_vars, linux_vars, edit_vars, hw_vars>>

worker_vars == <<connected, command_rx, response_rx, pc, command, held_pwm, todo,
                 inflight, fans, fan_curves, cycle, last_ok, ever_held,
                 n_sent, n_taken, unread, rx_seq>>

vars == <<connected, command_rx, response_rx, pc, command, held_pwm, todo,
          inflight, fans, fan_curves, cycle, last_ok, ever_held,
          n_sent, n_taken, unread, rx_seq, lib_vars>>

\* What the steps of each library specification leave alone besides its own
\* variables.
OtherThanCurve == <<worker_vars, pwm_vars, parse_vars, linux_vars, edit_vars, hw_vars>>
OtherThanPwm == <<worker_vars, curve_vars, parse_vars, linux_vars, edit_vars, hw_vars, scripts>>
OtherThanParse == <<worker_vars, curve_vars, pwm_vars, linux_vars, edit_vars, hw_vars, scripts>>
OtherThanLinux == <<worker_vars, curve_vars, pwm_vars, parse_vars, edit_vars, hw_vars, scripts>>
OtherThanEdit == <<worker_vars, pwm_vars, parse_vars, linux_vars, hw_vars, scripts>>
OtherThanLenovo == <<worker_vars, curve_vars, pwm_vars, linux_vars, edit_vars, output>>

ui_vars == <<fans, fan_curves, rx_seq>>
hist_vars == <<last_ok, ever_held>>

\* ------------------------------------------------------------ the protocol

\* enum WorkerCommand; seq numbers the frontend's sends (0: synthesized).
Refresh == [kind |-> "Refresh", fan |-> NoFan, pwm |-> 0, seq |-> 0]
SetPwm(fan_id, pwm, n) == [kind |-> "SetPwm", fan |-> fan_id, pwm |-> pwm, seq |-> n]
SetCurve(n) == [kind |-> "SetCurve", fan |-> NoFan, pwm |-> 0, seq |-> n]
NoCommand == [kind |-> "none", fan |-> NoFan, pwm |-> 0, seq |-> 0]

\* A controller call: the operation, its arguments, the caller, and the
\* command it is made for.
Call(op, fan_id, pwm, by, n) ==
    [op |-> op, fan |-> fan_id, pwm |-> pwm, by |-> by, seq |-> n]

NewCycle(kind, pending) ==
    [kind |-> kind, calls |-> <<>>, resps |-> <<>>,
     reapply_err |-> FALSE, err |-> FALSE, pending |-> pending]

\* ------------------------------------------------------------ the channels

\* Mutant of Send: a one-slot channel, a new message replaces the unread one.
SendOverwrite(queue, message, receiver_alive) ==
    IF receiver_alive THEN <<message>> ELSE queue

\* mpsc::Sender::send: append to the receiver's queue; with the receiver
\* dropped the send fails and the message is lost (let _ = ...).
Send(queue, message, receiver_alive) ==
    IF receiver_alive THEN Append(queue, message) ELSE queue

\* Mutant of RecvIndex: the newest message is taken first.
RecvIndexNewest(queue) == Len(queue)

\* mpsc::Receiver::recv_timeout / try_recv take the oldest message.
RecvIndex(queue) == 1

Received(queue) == queue[RecvIndex(queue)]

Remaining(queue) ==
    [i \in 1..(Len(queue) - 1) |->
        IF i < RecvIndex(queue) THEN queue[i] ELSE queue[i + 1]]

\* Mutant of TimeoutPossible: the poll timer fires whatever is queued.
TimeoutPossibleAlways(queue) == TRUE

\* recv_timeout returns Err(Timeout) only when no message arrived.
TimeoutPossible(queue) == queue = <<>>

\* --------------------------------------------------------------- held_pwm

\* Mutant of Insert: entry(key).or_insert(value), which keeps an old value.
InsertIfAbsent(map, key, value) ==
    [k \in DOMAIN map \cup {key} |-> IF k \in DOMAIN map THEN map[k] ELSE value]

\* HashMap::insert: add the key or replace its value.
Insert(map, key, value) ==
    [k \in DOMAIN map \cup {key} |-> IF k = key THEN value ELSE map[k]]

\* Mutant of Remove: the entry stays.
RemoveNothing(map, key) == map

\* HashMap::remove.
Remove(map, key) == [k \in DOMAIN map \ {key} |-> map[k]]

\* The SetPwm arm's update of held_pwm after a successful set_pwm.
HeldAfterSet(map, fan_id, pwm) ==
    IF pwm = 0 THEN Remove(map, fan_id) ELSE Insert(map, fan_id, pwm)

EmptyMap == [k \in {} |-> 0]

\* ------------------------------------------------------------- the worker

\* enum WorkerResponse, tagged with the command it answers (0: none).
Response(type) == [type |-> type, seq |-> command.seq]

\* response_tx.send(...), its result ignored.
Reply(type) ==
    /\ response_rx' = Send(response_rx, Response(type), connected)
    /\ unread' = IF connected THEN unread + 1 ELSE unread

Delivered(type) == IF connected THEN <<type>> ELSE <<>>

WorkerCalls == {c \in inflight : c.by = "worker"}

\* The worker starts a controller call and blocks in it.
StartCall(c) == inflight' = inflight \cup {c}

\* The call the worker blocks in returned.
EndCall == \E c \in WorkerCalls : inflight' = inflight \ {c}

\* The call the worker blocks in returned and the worker starts the next.
NextCall(next) == \E c \in WorkerCalls : inflight' = (inflight \ {c}) \cup {next}

\* Mutant of NextEntries: the loop stops after its first entry.
NextEntriesNone(entries, fan_id) == {}

\* for (fan_id, pwm) in &held_pwm: the entries left after visiting one.
NextEntries(entries, fan_id) == entries \ {fan_id}

\* Mutant of AfterReapply: a failed re-apply ends the loop over held_pwm.
AfterReapplyAbort(entries, ok) == IF ok THEN entries ELSE {}

\* if let Err(error) = controller.set_pwm(..) { warn!(..) }: the error is
\* logged and the loop goes on with the entries left.
AfterReapply(entries, ok) == entries

\* Mutant of AfterResult: an Err leaves the loop.
AfterResultBreak(ok) == IF ok THEN "recv" ELSE "done"

\* Every arm ends at the bottom of the loop, whatever the call returned:
\* the worker waits for the next command.
AfterResult(ok) == "recv"

ReapplyCall(fan_id, n) == Call("set_pwm", fan_id, held_pwm[fan_id], "worker", n)

DiscoverCall(n) == Call("discover", NoFan, 0, "worker", n)

\* The Refresh arm up to its first controller call: the first entry of
\* held_pwm in the map's (arbitrary) iteration order, or discover() when
\* the map is empty.
BeginRefresh(pending) ==
    IF DOMAIN held_pwm = {}
    THEN /\ pc' = "discover"
         /\ todo' = {}
         /\ StartCall(DiscoverCall(command'.seq))
         /\ cycle' = [NewCycle("Refresh", pending) EXCEPT
                         !.calls = <<DiscoverCall(command'.seq)>>]
    ELSE \E fan_id \in DOMAIN held_pwm :
         /\ pc' = "reapply"
         /\ todo' = NextEntries(DOMAIN held_pwm, fan_id)
         /\ StartCall(ReapplyCall(fan_id, command'.seq))
         /\ cycle' = [NewCycle("Refresh", pending) EXCEPT
                         !.calls = <<ReapplyCall(fan_id, command'.seq)>>]

\* The SetPwm and SetCurve arms up to their controller call.
BeginSetPwm(pending) ==
    LET c == Call("set_pwm", command'.fan, command'.pwm, "worker", command'.seq)
    IN  /\ pc' = "set_pwm"
        /\ todo' = todo
        /\ StartCall(c)
        /\ cycle' = [NewCycle("SetPwm", pending) EXCEPT !.calls = <<c>>]

BeginSetCurve(pending) ==
    LET c == Call("set_fan_curve", NoFan, 0, "worker", command'.seq)
    IN  /\ pc' = "set_fan_curve"
        /\ todo' = todo
        /\ StartCall(c)
        /\ cycle' = [NewCycle("SetCurve", pending) EXCEPT !.calls = <<c>>]

\* create_controller(): on failure one Error response and the thread returns;
\* on success held_pwm is created empty and the initial discover() starts.
CreateController ==
    /\ pc = "create"
    /\ \E ok \in BOOLEAN :
        IF ok
        THEN /\ pc' = "discover0"
             /\ StartCall(Call("discover", NoFan, 0, "worker", 0))
             /\ cycle' = [NewCycle("start", 0) EXCEPT
                             !.calls = <<Call("discover", NoFan, 0, "worker", 0)>>]
             /\ UNCHANGED <<response_rx, unread>>
        ELSE /\ pc' = "done"
             /\ Reply("Error")
             /\ cycle' = [NewCycle("create", 0) EXCEPT
                             !.err = TRUE, !.resps = Delivered("Error")]
             /\ UNCHANGED inflight
    /\ UNCHANGED <<lib_vars, connected, command_rx, command, held_pwm, todo, ui_vars,
                   hist_vars, n_sent, n_taken>>

\* The initial discover() returned: CurveData (only when some fan has
\* curves) and then FanData, or Error.
InitialDiscoverReturn ==
    /\ pc = "discover0"
    /\ EndCall
    /\ pc' = "recv"
    /\ \E result \in {"curves", "no_curves", "err"} :
        CASE result = "curves" ->
                /\ response_rx' =
                     Send(Send(response_rx, Response("CurveData"), connected),
                          Response("FanData"), connected)
                /\ unread' = IF connected THEN unread + 2 ELSE unread
                /\ cycle' = [cycle EXCEPT !.resps =
                                Delivered("CurveData") \o Delivered("FanData")]
          [] result = "no_curves" ->
                /\ Reply("FanData")
                /\ cycle' = [cycle EXCEPT !.resps = Delivered("FanData")]
          [] result = "err" ->
                /\ Reply("Error")
                /\ cycle' = [cycle EXCEPT !.err = TRUE, !.resps = Delivered("Error")]
    /\ UNCHANGED <<lib_vars, connected, command_rx, command, held_pwm, todo, ui_vars,
                   hist_vars, n_sent, n_taken>>

\* recv_timeout returned Ok(command): the oldest queued command is taken
\* and its arm runs up to its controller call.
Recv ==
    /\ pc = "recv"
    /\ command_rx # <<>>
    /\ command' = Received(command_rx)
    /\ command_rx' = Remaining(command_rx)
    /\ n_taken' = n_taken + 1
    /\ CASE command'.kind = "Refresh" -> BeginRefresh(Len(command_rx))
         [] command'.kind = "SetPwm" -> BeginSetPwm(Len(command_rx))
         [] command'.kind = "SetCurve" -> BeginSetCurve(Len(command_rx))
    /\ UNCHANGED <<lib_vars, connected, response_rx, held_pwm, ui_vars, hist_vars,
                   n_sent, unread>>

\* Mutant of Timeout: a receive without a deadline never times out.
TimeoutNever ==
    /\ pc = "recv"
    /\ FALSE
    /\ UNCHANGED vars

\* recv_timeout returned Err(Timeout): the worker synthesizes a Refresh.
Timeout ==
    /\ pc = "recv"
    /\ connected
    /\ TimeoutPossible(command_rx)
    /\ Len(response_rx) < MaxBacklog
    /\ command' = Refresh
    /\ BeginRefresh(Len(command_rx))
    /\ UNCHANGED <<lib_vars, connected, command_rx, response_rx, held_pwm, ui_vars,
                   hist_vars, n_sent, n_taken, unread>>

\* Mutant of Disconnected: the loop breaks as soon as the sender is gone,
\* whatever is queued.
DisconnectedAtOnce ==
    /\ pc = "recv"
    /\ ~connected
    /\ pc' = "done"
    /\ UNCHANGED <<lib_vars, connected, command_rx, response_rx, command, held_pwm, todo,
                   inflight, ui_vars, cycle, hist_vars, n_sent, n_taken, unread>>

\* recv_timeout returned Err(Disconnected): the loop breaks.
Disconnected ==
    /\ pc = "recv"
    /\ ~connected
    /\ command_rx = <<>>
    /\ pc' = "done"
    /\ UNCHANGED <<lib_vars, connected, command_rx, response_rx, command, held_pwm, todo,
                   inflight, ui_vars, cycle, hist_vars, n_sent, n_taken, unread>>

\* Mutant of ReapplyReturn: a hold whose re-apply fails is given up.
ReapplyReturnDropsFailed ==
    /\ pc = "reapply"
    /\ \E ok \in BOOLEAN :
        LET failed == cycle.reapply_err \/ ~ok
            left == AfterReapply(todo, ok)
            visited == CHOOSE c \in WorkerCalls : TRUE
        IN  /\ held_pwm' = IF ok THEN held_pwm ELSE Remove(held_pwm, visited.fan)
            /\ IF left = {}
               THEN /\ pc' = "discover"
                    /\ todo' = {}
                    /\ NextCall(DiscoverCall(command.seq))
                    /\ cycle' = [cycle EXCEPT !.reapply_err = failed,
                                              !.calls = Append(@, DiscoverCall(command.seq))]
               ELSE \E fan_id \in left :
                    /\ pc' = "reapply"
                    /\ todo' = NextEntries(left, fan_id)
                    /\ NextCall(ReapplyCall(fan_id, command.seq))
                    /\ cycle' = [cycle EXCEPT !.reapply_err = failed,
                                              !.calls = Append(@,
                                                  ReapplyCall(fan_id, command.seq))]
    /\ UNCHANGED <<lib_vars, connected, command_rx, response_rx, command,
                   ui_vars, hist_vars, n_sent, n_taken, unread>>

\* A re-apply set_pwm returned; an error is logged only.  The loop goes on
\* to the next entry, or to discover() after the last one.
ReapplyReturn ==
    /\ pc = "reapply"
    /\ \E ok \in BOOLEAN :
        LET failed == cycle.reapply_err \/ ~ok
            left == AfterReapply(todo, ok)
        IN  IF left = {}
            THEN /\ pc' = "discover"
                 /\ todo' = {}
                 /\ NextCall(DiscoverCall(command.seq))
                 /\ cycle' = [cycle EXCEPT !.reapply_err = failed,
                                           !.calls = Append(@, DiscoverCall(command.seq))]
            ELSE \E fan_id \in left :
                 /\ pc' = "reapply"
                 /\ todo' = NextEntries(left, fan_id)
                 /\ NextCall(ReapplyCall(fan_id, command.seq))
                 /\ cycle' = [cycle EXCEPT !.reapply_err = failed,
                                           !.calls = Append(@,
                                               ReapplyCall(fan_id, command.seq))]
    /\ UNCHANGED <<lib_vars, connected, command_rx, response_rx, command, held_pwm,
                   ui_vars, hist_vars, n_sent, n_taken, unread>>

\* Mutant of DiscoverReturn: the Refresh arm sends the curves again, as the
\* initial discovery does.
DiscoverReturnWithCurves ==
    /\ pc = "discover"
    /\ EndCall
    /\ \E ok \in BOOLEAN :
        /\ pc' = AfterResult(ok)
        /\ IF ok
           THEN /\ response_rx' =
                     Send(Send(response_rx, Response("CurveData"), connected),
                          Response("FanData"), connected)
                /\ unread' = IF connected THEN unread + 2 ELSE unread
                /\ cycle' = [cycle EXCEPT !.resps = @ \o Delivered("FanData")]
           ELSE /\ Reply("Error")
                /\ cycle' = [cycle EXCEPT !.err = TRUE, !.resps = @ \o Delivered("Error")]
    /\ UNCHANGED <<lib_vars, connected, command_rx, command, held_pwm, todo, ui_vars,
                   hist_vars, n_sent, n_taken>>

\* The Refresh arm's discover() returned: FanData or Error.
DiscoverReturn ==
    /\ pc = "discover"
    /\ EndCall
    /\ \E ok \in BOOLEAN :
        LET type == IF ok THEN "FanData" ELSE "Error"
        IN  /\ pc' = AfterResult(ok)
            /\ Reply(type)
            /\ cycle' = [cycle EXCEPT !.err = ~ok, !.resps = @ \o Delivered(type)]
    /\ UNCHANGED <<lib_vars, connected, command_rx, command, held_pwm, todo, ui_vars,
                   hist_vars, n_sent, n_taken>>

\* Mutant of SetPwmReturn: held_pwm is updated before the result of set_pwm
\* is looked at.
SetPwmReturnHoldsFirst ==
    /\ pc = "set_pwm"
    /\ EndCall
    /\ held_pwm' = HeldAfterSet(held_pwm, command.fan, command.pwm)
    /\ \E ok \in BOOLEAN :
        /\ pc' = AfterResult(ok)
        /\ IF ok
           THEN /\ Reply("PwmSet")
                /\ cycle' = [cycle EXCEPT !.resps = @ \o Delivered("PwmSet")]
                /\ last_ok' = [last_ok EXCEPT ![command.fan] = {command.pwm}]
                /\ ever_held' = IF command.pwm # 0
                                THEN ever_held \cup {command.fan} ELSE ever_held
           ELSE /\ Reply("Error")
                /\ cycle' = [cycle EXCEPT !.err = TRUE,
                                          !.resps = @ \o Delivered("Error")]
                /\ UNCHANGED <<last_ok, ever_held>>
    /\ UNCHANGED <<lib_vars, connected, command_rx, command, todo, ui_vars, n_sent, n_taken>>

\* The SetPwm arm's set_pwm returned: on Ok held_pwm is updated and PwmSet
\* sent, on Err only Error is sent.
SetPwmReturn ==
    /\ pc = "set_pwm"
    /\ EndCall
    /\ \E ok \in BOOLEAN :
        /\ pc' = AfterResult(ok)
        /\ IF ok
           THEN /\ held_pwm' = HeldAfterSet(held_pwm, command.fan, command.pwm)
                /\ Reply("PwmSet")
                /\ cycle' = [cycle EXCEPT !.resps = @ \o Delivered("PwmSet")]
                /\ last_ok' = [last_ok EXCEPT ![command.fan] = {command.pwm}]
                /\ ever_held' = IF command.pwm # 0
                                THEN ever_held \cup {command.fan} ELSE ever_held
           ELSE /\ Reply("Error")
                /\ cycle' = [cycle EXCEPT !.err = TRUE,
                                          !.resps = @ \o Delivered("Error")]
                /\ UNCHANGED <<held_pwm, last_ok, ever_held>>
    /\ UNCHANGED <<lib_vars, connected, command_rx, command, todo, ui_vars, n_sent, n_taken>>

\* The SetCurve arm's set_fan_curve returned: CurveSet or Error.
SetCurveReturn ==
    /\ pc = "set_fan_curve"
    /\ EndCall
    /\ \E ok \in BOOLEAN :
        LET type == IF ok THEN "CurveSet" ELSE "Error"
        IN  /\ pc' = AfterResult(ok)
            /\ Reply(type)
            /\ cycle' = [cycle EXCEPT !.err = ~ok, !.resps = @ \o Delivered(type)]
    /\ UNCHANGED <<lib_vars, connected, command_rx, command, held_pwm, todo, ui_vars,
                   hist_vars, n_sent, n_taken>>

Worker ==
    \/ CreateController
    \/ InitialDiscoverReturn
    \/ Recv
    \/ Timeout
    \/ Disconnected
    \/ ReapplyReturn
    \/ DiscoverReturn
    \/ SetPwmReturn
    \/ SetCurveReturn

\* ----------------------------------------------------------- the frontend

\* One iteration of drain_responses' while-let: try_recv takes the oldest
\* response; FanData fills fans (and the sliders), CurveData fan_curves.
DrainResponse ==
    /\ connected
    /\ response_rx # <<>>
    /\ LET response == Received(response_rx)
       IN  /\ fans' = (fans \/ response.type = "FanData")
           /\ fan_curves' = (fan_curves \/ response.type = "CurveData")
           /\ rx_seq' = IF response.seq # 0 THEN response.seq ELSE rx_seq
    /\ response_rx' = Remaining(response_rx)
    /\ unread' = unread - 1
    /\ UNCHANGED <<lib_vars, connected, command_rx, pc, command, held_pwm, todo, inflight,
                   cycle, hist_vars, n_sent, n_taken>>

\* Mutant of ClickSet: the frontend calls the controller itself.
ClickSetDirect(fan_id, pwm) ==
    /\ connected
    /\ fans
    /\ n_sent < MaxSends
    /\ n_sent' = n_sent + 1
    /\ inflight' = inflight \cup {Call("set_pwm", fan_id, pwm, "ui", 0)}
    /\ UNCHANGED <<lib_vars, connected, command_rx, response_rx, pc, command, held_pwm, todo,
                   ui_vars, cycle, hist_vars, n_taken, unread>>

\* The "Set" button of a fan card: command_tx.send(SetPwm{fan_id, pwm}).
\* Fan cards exist only once a FanData has arrived.
ClickSet(fan_id, pwm) ==
    /\ connected
    /\ fans
    /\ n_sent < MaxSends
    /\ n_sent' = n_sent + 1
    /\ command_rx' = Send(command_rx, SetPwm(fan_id, pwm, n_sent + 1), pc # "done")
    /\ UNCHANGED <<lib_vars, connected, response_rx, pc, command, held_pwm, todo, inflight,
                   ui_vars, cycle, hist_vars, n_taken, unread>>

\* The "Apply Curve" button with an edit the validator accepts:
\* command_tx.send(SetCurve{curve}).  The curve editor exists only for a
\* fan with cached curves.
ApplyCurve ==
    /\ connected
    /\ fans
    /\ fan_curves
    /\ n_sent < MaxSends
    /\ n_sent' = n_sent + 1
    /\ command_rx' = Send(command_rx, SetCurve(n_sent + 1), pc # "done")
    /\ UNCHANGED <<lib_vars, connected, response_rx, pc, command, held_pwm, todo, inflight,
                   ui_vars, cycle, hist_vars, n_taken, unread>>

\* The window closes: FanControlApp is dropped, and with it command_tx and
\* response_rx (the unread responses are discarded).
Close ==
    /\ connected
    /\ connected' = FALSE
    /\ response_rx' = <<>>
    /\ unread' = 0
    /\ UNCHANGED <<lib_vars, command_rx, pc, command, held_pwm, todo, inflight, ui_vars,
                   cycle, hist_vars, n_sent, n_taken>>

Frontend ==
    \/ DrainResponse
    \/ \E fan_id \in Fans, pwm \in Duties : ClickSet(fan_id, pwm)
    \/ ApplyCurve
    \/ Close

\* ------------------------------------------------------ the specification

WorkerInit ==
    /\ connected = TRUE
    /\ command_rx = <<>>
    /\ response_rx = <<>>
    /\ pc = "create"
    /\ command = NoCommand
    /\ held_pwm = EmptyMap
    /\ todo = {}
    /\ inflight = {}
    /\ fans = FALSE
    /\ fan_curves = FALSE
    /\ cycle = NewCycle("none", 0)
    /\ last_ok = [f \in Fans |-> {}]
    /\ ever_held = {}
    /\ n_sent = 0
    /\ n_taken = 0
    /\ unread = 0
    /\ rx_seq = 0

\* What `returned` records: the function called and its result.
NotCalled == [call |-> "none", value |-> <<>>]
Returned(call, value) == [call |-> call, value |-> value]

\* No call of a backend or a pure function is under study.
CallIdle ==
    /\ returned = NotCalled
    /\ scripts = <<>>

CurveIdle == curve = <<>>

PwmIdle ==
    /\ range = <<>>
    /\ duty = 0
    /\ target_rpm = {}

ParseIdle ==
    /\ output = <<>>
    /\ fan_ranges = EmptyMap

LinuxIdle ==
    /\ sysfs = [base |-> "missing", dirs |-> {}, files |-> EmptyMap]
    /\ target = <<>>
    /\ written = <<>>

EditIdle ==
    /\ edit_points = <<>>
    /\ status_message = <<"Discovering fans...">>
    /\ curve_commands = <<>>
    /\ curve_calls = <<>>
    /\ curve_responses = <<>>

HwIdle == full_speed = FALSE

LibIdle ==
    CallIdle /\ CurveIdle /\ PwmIdle /\ ParseIdle /\ LinuxIdle /\ EditIdle /\ HwIdle

Init == WorkerInit /\ LibIdle

Next == Worker \/ Frontend

Spec == Init /\ [][Next]_vars

\* The worker thread is scheduled and every controller call returns; the
\* frontend repaints (request_repaint follows every response) while alive.
FairSpec == Spec /\ WF_vars(Worker) /\ WF_vars(DrainResponse)

\* ------------------------------------------------------------- the claims

\* The worker is between cycles: the cycle recorded in `cycle` is complete.
CycleDone == pc \in {"recv", "done"}

CommandKinds == {"Refresh", "SetPwm", "SetCurve"}

\* The re-apply calls recorded in the cycle, as indices into cycle.calls.
ReappliesOf(fan_id) ==
    {i \in 1..Len(cycle.calls) :
        /\ cycle.calls[i].op = "set_pwm"
        /\ cycle.calls[i].fan = fan_id}

\* The worker has just processed a SetPwm: it is the most recent SetPwm
\* for its fan.
SetPwmDone == cycle.kind = "SetPwm" /\ CycleDone

\* C1 as stated, for the SetPwm just processed: its fan is a key of
\* held_pwm exactly when it carried a nonzero duty, and the value held is
\* that duty.  (Violated: a SetPwm whose set_pwm call fails changes nothing.)
C1_AsStated ==
    SetPwmDone =>
        /\ command.fan \in DOMAIN held_pwm <=> command.pwm # 0
        /\ command.fan \in DOMAIN held_pwm => held_pwm[command.fan] = command.pwm

\* C1 amended: a fan is a key of held_pwm exactly when the most recent
\* SetPwm for it whose set_pwm call succeeded carried a nonzero duty, and
\* the value held is that duty.
C1_HeldIsLastSuccessfulSet ==
    \A f \in Fans :
        /\ f \in DOMAIN held_pwm <=> last_ok[f] \notin {{}, {0}}
        /\ f \in DOMAIN held_pwm => last_ok[f] = {held_pwm[f]}

\* C1 witness: a fan is held at the duty of an earlier successful SetPwm
\* after a later SetPwm for it failed.
C1_Witness ==
    \E f \in Fans :
        /\ f \in DOMAIN held_pwm
        /\ last_ok[f] = {held_pwm[f]}
        /\ SetPwmDone
        /\ cycle.err
        /\ command.fan = f

\* C2 as stated, for the SetPwm just processed: when it carried duty 0 for
\* a fan that a nonzero SetPwm had put in held_pwm, the fan is no key of
\* held_pwm.  (Violated when the set_pwm call of the duty-0 command fails.)
C2_AsStated ==
    (SetPwmDone /\ command.pwm = 0 /\ command.fan \in ever_held) =>
        command.fan \notin DOMAIN held_pwm

\* C2 amended: once a successful nonzero SetPwm for a fan was followed by a
\* successful SetPwm with duty 0 for it (and by no later successful nonzero
\* one), the fan is no key of held_pwm, no Refresh has it left to visit, no
\* re-apply call for it is in flight, and a Refresh cycle made none.
C2_ReleasedIsNotReapplied ==
    \A f \in ever_held :
        last_ok[f] = {0} =>
            /\ f \notin DOMAIN held_pwm
            /\ f \notin todo
            /\ \A c \in inflight : c.fan # f \/ pc # "reapply"
            /\ cycle.kind = "Refresh" => ReappliesOf(f) = {}

\* C2 witness: a Refresh cycle has completed after a fan was held and then
\* released.
C2_Witness ==
    \E f \in ever_held :
        /\ last_ok[f] = {0}
        /\ cycle.kind = "Refresh"
        /\ CycleDone

\* C3: in a Refresh cycle, when discover() is called (and from then on) the
\* calls of the cycle are one set_pwm(fan_id, held value) for every entry of
\* held_pwm followed by the discover(); while the loop over held_pwm runs
\* no discover() has been called and no entry was visited twice.
C3_ReapplyAllThenDiscover ==
    cycle.kind = "Refresh" =>
        LET n == Len(cycle.calls)
        IN  /\ \A f \in Fans : Cardinality(ReappliesOf(f)) <= 1
            /\ \A i \in 1..n :
                 cycle.calls[i].op = "set_pwm" =>
                    /\ cycle.calls[i].fan \in DOMAIN held_pwm
                    /\ cycle.calls[i].pwm = held_pwm[cycle.calls[i].fan]
            /\ pc = "reapply" => \A i \in 1..n : cycle.calls[i].op = "set_pwm"
            /\ pc # "reapply" =>
                 /\ n = Cardinality(DOMAIN held_pwm) + 1
                 /\ cycle.calls[n].op = "discover"
                 /\ \A i \in 1..(n - 1) : cycle.calls[i].op = "set_pwm"
                 /\ \A f \in DOMAIN held_pwm : ReappliesOf(f) # {}

\* C3 witness: the discover() of a Refresh is in flight with two fans held.
C3_Witness ==
    /\ cycle.kind = "Refresh"
    /\ pc = "discover"
    /\ DOMAIN held_pwm = Fans

\* C4: a Refresh cycle in which a re-apply failed still visits every entry
\* of held_pwm and calls discover(); no response is sent before discover()
\* returns, and the cycle's only response is FanData, or Error exactly when
\* discover() failed.
C4_ReapplyFailureIsSwallowed ==
    (cycle.kind = "Refresh" /\ cycle.reapply_err) =>
        /\ pc \in {"reapply", "discover"} => cycle.resps = <<>>
        /\ CycleDone =>
            /\ \A f \in DOMAIN held_pwm : ReappliesOf(f) # {}
            /\ cycle.calls[Len(cycle.calls)].op = "discover"
            /\ Len(cycle.resps) <= 1
            /\ connected =>
                 cycle.resps = IF cycle.err THEN <<"Error">> ELSE <<"FanData">>

\* C4 witness: a Refresh cycle over two held fans has completed with a
\* failed re-apply and answered FanData.
C4_Witness ==
    /\ cycle.kind = "Refresh"
    /\ cycle.reapply_err
    /\ CycleDone
    /\ DOMAIN held_pwm = Fans
    /\ cycle.resps = <<"FanData">>

\* The response types each command may be answered with.
AnswersTo(kind) ==
    CASE kind = "Refresh" -> {"FanData", "Error"}
      [] kind = "SetPwm" -> {"PwmSet", "Error"}
      [] kind = "SetCurve" -> {"CurveSet", "Error"}

\* The worker blocks in a controller call.
InCall == pc \in {"discover0", "reapply", "discover", "set_pwm", "set_fan_curve"}

\* C5: commands are processed in the order sent.  The k-th command the
\* worker takes is the k-th the frontend sent and the queue holds the later
\* ones in order; every controller call in flight is made for the command
\* being processed; the responses to commands lie in the response queue in
\* the order of their commands, after those already drained, and a command
\* has a response there only once all its calls have returned.
C5_Fifo ==
    /\ command.seq # 0 => command.seq = n_taken
    /\ \A i \in 1..Len(command_rx) : command_rx[i].seq = n_taken + i
    /\ \A c \in inflight : c.seq = command.seq
    /\ \A i \in 1..Len(response_rx) :
         response_rx[i].seq # 0 =>
            /\ response_rx[i].seq > rx_seq
            /\ \/ response_rx[i].seq < n_taken
               \/ response_rx[i].seq = n_taken /\ (command.seq = 0 \/ CycleDone)
            /\ \A j \in 1..(i - 1) :
                 response_rx[j].seq # 0 => response_rx[j].seq < response_rx[i].seq

\* C5 witness: the call of the first command is in flight while the second
\* command, sent before the first was taken, waits in the queue.
C5_Witness ==
    /\ command.seq = 1
    /\ cycle.pending = 2
    /\ inflight # {}
    /\ Len(command_rx) = 1

\* C6: a Refresh synthesized from the timeout is processed only when no
\* command was queued at the moment of the receive, and a cycle for a real
\* command took that command from a non-empty queue.
C6_TimeoutOnlyWhenQueueEmpty ==
    /\ (cycle.kind = "Refresh" /\ command.seq = 0) => cycle.pending = 0
    /\ cycle.kind \in {"SetPwm", "SetCurve"} =>
         /\ cycle.pending >= 1
         /\ command.seq = n_taken

\* C6 witness: a command arrived while a synthesized Refresh is in progress.
C6_Witness ==
    /\ cycle.kind = "Refresh"
    /\ command.seq = 0
    /\ pc = "discover"
    /\ command_rx # <<>>

\* C7: at most one controller call is in flight, it is the worker's, and a
\* call is in flight exactly while the worker blocks in one.
C7_OneCallInFlight ==
    /\ Cardinality(inflight) <= 1
    /\ \A c \in inflight : c.by = "worker"
    /\ inflight # {} <=> InCall

\* C7 witness: a call is in flight while a command and a response are
\* queued.
C7_Witness ==
    /\ inflight # {}
    /\ command_rx # <<>>
    /\ response_rx # <<>>

\* C8 as stated: the worker does not end while the frontend is alive, and
\* a cycle in which any controller operation failed (a re-apply included)
\* answers Error.  (Violated: a failed create_controller ends the thread.)
C8_AsStated ==
    /\ pc = "done" => ~connected
    /\ (CycleDone /\ connected /\ (cycle.err \/ cycle.reapply_err)) =>
          \E i \in 1..Len(cycle.resps) : cycle.resps[i] = "Error"

\* C8 amended: a failed discover, SetPwm set_pwm or set_fan_curve gives
\* exactly the response Error (enqueued while the frontend is alive) and the
\* worker goes on to wait for the next command; the worker ends only after
\* a failed create_controller (having answered Error), or with the command
\* channel disconnected and empty.
C8_ErrorsAnsweredLoopGoesOn ==
    /\ pc = "done" => (cycle.kind = "create" \/ (~connected /\ command_rx = <<>>))
    /\ (CycleDone /\ connected /\ cycle.err) => cycle.resps = <<"Error">>
    /\ (cycle.err /\ cycle.kind # "create" /\ ~InCall) => (pc = "recv" \/ ~connected)

\* C8 witness: the first command was answered Error and the worker is
\* processing the second.
C8_Witness ==
    /\ connected
    /\ command.seq = 2
    /\ pc = "set_pwm"
    /\ \E i \in 1..Len(response_rx) :
         response_rx[i].type = "Error" /\ response_rx[i].seq = 1

\* C9 (under FairSpec): while the frontend is alive and no command is
\* queued, the worker waiting for a command goes on to a Refresh; a Refresh
\* reaches its end with FanData or Error as its response; and so, unless
\* create_controller failed, discover() is called again and again for as
\* long as the frontend is alive.
C9_PollsForever ==
    /\ (pc = "recv" /\ connected /\ command_rx = <<>>)
          ~> (pc \in {"reapply", "discover"} \/ ~connected \/ command_rx # <<>>)
    /\ (pc \in {"reapply", "discover"})
          ~> (/\ CycleDone
              /\ cycle.kind = "Refresh"
              /\ connected => cycle.resps \in {<<"FanData">>, <<"Error">>})
    /\ []<>(pc = "discover" \/ ~connected \/ cycle.kind = "create")

\* C9 witness: with no command ever sent, a Refresh cycle has completed and
\* answered FanData.
C9_Witness ==
    /\ n_sent = 0
    /\ connected
    /\ cycle.kind = "Refresh"
    /\ CycleDone
    /\ cycle.resps = <<"FanData">>

\* C10 as stated: every command the worker took from the queue and has
\* processed has exactly one response of its kind on the response queue.
\* (Violated: once the frontend is gone the send fails and nothing is
\* enqueued.)
C10_AsStated ==
    (cycle.kind \in CommandKinds /\ command.seq # 0 /\ CycleDone) =>
        /\ Len(cycle.resps) = 1
        /\ cycle.resps[1] \in AnswersTo(cycle.kind)

\* C10 amended: every command processed while the frontend is alive gets
\* exactly one response of its kind, enqueued when its call has returned
\* (with the frontend gone, at most one and possibly none); while the
\* frontend is alive every response enqueued and not yet drained is in the
\* queue, the newest last.
C10_OneResponseNoneLost ==
    /\ cycle.kind \in CommandKinds =>
         /\ Len(cycle.resps) <= 1
         /\ \A i \in 1..Len(cycle.resps) : cycle.resps[i] \in AnswersTo(cycle.kind)
         /\ InCall => cycle.resps = <<>>
         /\ (CycleDone /\ connected) => Len(cycle.resps) = 1
    /\ connected =>
         /\ Len(response_rx) = unread
         /\ (unread > 0 /\ CycleDone /\ cycle.resps # <<>>) =>
              /\ response_rx[Len(response_rx)].type = cycle.resps[Len(cycle.resps)]
              /\ response_rx[Len(response_rx)].seq = command.seq

\* C10 witness: the frontend is alive, two responses wait unread, and the
\* second answers the SetPwm just processed.
C10_Witness ==
    /\ connected
    /\ cycle.kind = "SetPwm"
    /\ CycleDone
    /\ Len(response_rx) >= 2

\* ======================================================================
\* The curve validator (platform/mod.rs) and set_fan_curve
\* ======================================================================

\* Points of a curve drawn for the validator.
MaxPoints == 3

\* Temperatures (u32, degrees): plausible ones, the limit, one above it.
Temperatures == {50, 60, 150, 151}

\* Fan speeds (u32, RPM) of the points.
FanSpeeds == {1000, 1500, 3000}

\* max_speed of the curve: absent (0), and an odd value whose half
\* truncates to 1500.
MaxSpeeds == {0, 3001}

\* struct FanCurvePoint.
FanCurvePoint(temperature, fan_speed) ==
    [temperature |-> temperature, fan_speed |-> fan_speed]

\* struct FanCurve.
FanCurve(fan_id, sensor_id, min_speed, max_speed, min_temp, max_temp, points, active) ==
    [fan_id |-> fan_id, sensor_id |-> sensor_id,
     min_speed |-> min_speed, max_speed |-> max_speed,
     min_temp |-> min_temp, max_temp |-> max_temp,
     points |-> points, active |-> active]

PointSeqs ==
    UNION {[1..n -> {FanCurvePoint(t, v) : t \in Temperatures, v \in FanSpeeds}] :
              n \in 0..MaxPoints}

\* The curves handed to the validator: every sequence of up to MaxPoints
\* points, with either max_speed.
Curves ==
    {FanCurve(0, 3, 1000, max_speed, 50, 150, points, TRUE) :
        max_speed \in MaxSpeeds, points \in PointSeqs}

\* Result<(), FanControlError>.
Ok == <<"Ok">>
InvalidCurve(message) == <<"InvalidCurve", message>>
Platform(message) == <<"Platform", message>>

\* point.temperature > 150
TooHot(point) == point.temperature > 150

\* curve.points[i].temperature <= curve.points[i - 1].temperature
TemperatureNotRising(previous, point) == point.temperature <= previous.temperature

\* Mutant of SpeedDrops: an equal speed is rejected too.
SpeedDropsOrStalls(previous, point) == point.fan_speed <= previous.fan_speed

\* curve.points[i].fan_speed < curve.points[i - 1].fan_speed
SpeedDrops(previous, point) == point.fan_speed < previous.fan_speed

\* let min_safe_rpm = curve.max_speed / 2 (u32 division).
min_safe_rpm(max_speed) == max_speed \div 2

\* Mutant of FirstOf: the last index that fails is the one reported.
LastOf(indices) == CHOOSE i \in indices : \A j \in indices : j <= i

\* for (i, point) in ..enumerate() { if .. { return Err(..) } }: the loop
\* returns at the lowest index that fails.
FirstOf(indices) == CHOOSE i \in indices : \A j \in indices : i <= j

\* validate_curve: the checks in the order of the code, the first failure
\* returned.  A message is its format string followed by the values
\* formatted into it; the code counts the points from 0.
validate_curve(c) ==
    LET n == Len(c.points)
        hot == {i \in 1..n : TooHot(c.points[i])}
        not_rising == {i \in 2..n : TemperatureNotRising(c.points[i - 1], c.points[i])}
        drops == {i \in 2..n : SpeedDrops(c.points[i - 1], c.points[i])}
    IN  IF n < 2
        THEN InvalidCurve(<<"curve must have at least 2 points">>)
        ELSE IF hot # {}
        THEN LET i == FirstOf(hot)
             IN  InvalidCurve(<<"point {} has unreasonable temperature {} (max 150)",
                                i - 1, c.points[i].temperature>>)
        ELSE IF not_rising # {}
        THEN LET i == FirstOf(not_rising)
             IN  InvalidCurve(<<"temperatures must be strictly increasing: {} at point {} is not greater than {} at point {}",
                                c.points[i].temperature, i - 1,
                                c.points[i - 1].temperature, i - 2>>)
        ELSE IF drops # {}
        THEN LET i == FirstOf(drops)
             IN  InvalidCurve(<<"fan speed must not decrease as temperature rises: {} RPM at {} is less than {} RPM at {}",
                                c.points[i].fan_speed, c.points[i].temperature,
                                c.points[i - 1].fan_speed, c.points[i - 1].temperature>>)
        ELSE IF c.max_speed > 0 /\ c.points[n].fan_speed < min_safe_rpm(c.max_speed)
        THEN InvalidCurve(<<"highest temperature point ({}) has only {} RPM; must be at least {} RPM (50% of max {})",
                            c.points[n].temperature, c.points[n].fan_speed,
                            min_safe_rpm(c.max_speed), c.max_speed>>)
        ELSE Ok

\* The script of set_fan_curve: Fan_Set_Table(fan_id, sensor_id, speeds, temps).
Fan_Set_Table(c) ==
    [method |-> "Fan_Set_Table", fan_id |-> c.fan_id, sensor_id |-> c.sensor_id,
     speeds |-> [i \in 1..Len(c.points) |-> c.points[i].fan_speed],
     temps |-> [i \in 1..Len(c.points) |-> c.points[i].temperature]]

\* Mutant of IsErr: the validator's result is dropped (let _ = ...).
IsErrNever(value) == FALSE

\* The ? operator: an Err leaves the function with that error.
IsErr(value) == value # Ok

\* validate_curve(&curve), called on its own (gui.rs:467, the tests).
ValidateCurve ==
    /\ returned = NotCalled
    /\ curve # <<>>
    /\ returned' = Returned("validate_curve", validate_curve(curve))
    /\ UNCHANGED <<OtherThanCurve, curve, scripts>>

\* LenovoFanController::set_fan_curve: validate_curve(curve)?, then the
\* script is handed to ps_command, which runs it (or fails to).
SetFanCurve ==
    /\ returned = NotCalled
    /\ curve # <<>>
    /\ LET verdict == validate_curve(curve)
       IN  IF IsErr(verdict)
           THEN /\ returned' = Returned("LenovoFanController::set_fan_curve", verdict)
                /\ scripts' = scripts
           ELSE \E ps_ok \in BOOLEAN :
                /\ scripts' = Append(scripts, Fan_Set_Table(curve))
                /\ returned' =
                     Returned("LenovoFanController::set_fan_curve",
                              IF ps_ok THEN Ok ELSE Platform("powershell error"))
    /\ UNCHANGED <<OtherThanCurve, curve>>

\* FanController::set_fan_curve, the trait's default (the sysfs and the
\* generic Windows backends): not supported, whatever the curve.
SetFanCurveDefault ==
    /\ returned = NotCalled
    /\ curve # <<>>
    /\ returned' = Returned("FanController::set_fan_curve",
                            Platform("setting fan curves not supported"))
    /\ UNCHANGED <<OtherThanCurve, curve, scripts>>

CurveInit ==
    /\ WorkerInit
    /\ EditIdle
    /\ HwIdle
    /\ LinuxIdle
    /\ CallIdle
    /\ PwmIdle
    /\ ParseIdle
    /\ curve \in Curves

CurveNext == ValidateCurve \/ SetFanCurve \/ SetFanCurveDefault

\* One curve, one call of the validator or of a backend's set_fan_curve.
CurveSpec == CurveInit /\ [][CurveNext]_vars

SetFanCurveCalls ==
    {"LenovoFanController::set_fan_curve", "FanController::set_fan_curve"}

\* C11 as stated: a set_fan_curve call with a curve the validator rejects
\* returns the validator's error and runs no script, and a script is run
\* only for a curve the validator accepts.  (Violated: the trait's default
\* set_fan_curve answers Platform for a rejected curve.)
C11_AsStated ==
    /\ (returned.call \in SetFanCurveCalls /\ validate_curve(curve) # Ok) =>
          /\ returned.value = validate_curve(curve)
          /\ scripts = <<>>
    /\ scripts # <<>> => validate_curve(curve) = Ok

\* C11 amended: a script is run only by the Lenovo set_fan_curve and only
\* for a curve the validator accepts, and it is that curve's Fan_Set_Table;
\* the Lenovo set_fan_curve returns the validator's error for a rejected
\* curve; the default set_fan_curve returns Platform for every curve, runs
\* no script and does not consult the validator.
C11_ValidatedBeforeWrite ==
    /\ scripts # <<>> =>
          /\ validate_curve(curve) = Ok
          /\ returned.call = "LenovoFanController::set_fan_curve"
          /\ scripts = <<Fan_Set_Table(curve)>>
    /\ returned.call = "LenovoFanController::set_fan_curve" =>
          IF validate_curve(curve) # Ok
          THEN returned.value = validate_curve(curve) /\ scripts = <<>>
          ELSE returned.value[1] \in {"Ok", "Platform"} /\ scripts # <<>>
    /\ returned.call = "FanController::set_fan_curve" =>
          returned.value[1] = "Platform" /\ scripts = <<>>

\* C11 witness: the Lenovo set_fan_curve refused a three-point curve whose
\* only fault is a speed that drops, and ran no script.
C11_Witness ==
    /\ returned.call = "LenovoFanController::set_fan_curve"
    /\ returned.value[1] = "InvalidCurve"
    /\ returned.value[2][1] = "fan speed must not decrease as temperature rises: {} RPM at {} is less than {} RPM at {}"
    /\ Len(curve.points) = 3
    /\ scripts = <<>>

\* The five invariants of a safe curve, stated on their own.
AtLeastTwoPoints(c) == Len(c.points) >= 2
TemperaturesPlausible(c) == \A i \in 1..Len(c.points) : c.points[i].temperature <= 150
TemperaturesStrictlyIncreasing(c) ==
    \A i \in 1..(Len(c.points) - 1) :
        c.points[i].temperature < c.points[i + 1].temperature
SpeedsNonDecreasing(c) ==
    \A i \in 1..(Len(c.points) - 1) :
        c.points[i].fan_speed <= c.points[i + 1].fan_speed
LastPointSafe(c) ==
    c.max_speed > 0 =>
        \E half \in 0..c.max_speed :
            /\ 2 * half <= c.max_speed
            /\ c.max_speed < 2 * half + 2
            /\ c.points[Len(c.points)].fan_speed >= half

DEFAULT_MIN_RPM == 1600
DEFAULT_MAX_RPM == 4800

\* Widths max_rpm - min_rpm of the ranges drawn: none (a table whose speeds
\* are all equal), the narrowest, narrow ones, those around 255, ones where
\* the f64 product falls short of an integer (51, 306, 765), and that of the
\* default range (3200).
Spans == {0, 1, 51, 200, 254, 255, 256, 306, 765, 3200}

\* min_rpm of the ranges drawn.
MinRpms == {1, DEFAULT_MIN_RPM}

\* struct FanRpmRange.
FanRpmRange(min_rpm, max_rpm) == [min_rpm |-> min_rpm, max_rpm |-> max_rpm]

\* The ranges drawn for the conversions: 0 < min_rpm <= max_rpm.
Ranges == {FanRpmRange(m, m + w) : m \in MinRpms, w \in Spans}

\* u8.
U8 == 0..255

\* f64 arithmetic in integers.  A double has a 53-bit significand: for
\* 0 < num < den, fl(num / den) = (num * 2^K + c) / (den * 2^K) with
\* K = 52 - e, 2^e <= num/den < 2^(e+1), and c the rounding error in units
\* of 1/den of the last place, -den/2 < c <= den/2.

RECURSIVE Pow2(_)
Pow2(n) == IF n <= 0 THEN 1 ELSE 2 * Pow2(n - 1)

\* The e with 2^e <= num / den < 2^(e + 1), for num, den > 0.
RECURSIVE Log2Floor(_, _)
Log2Floor(num, den) ==
    IF num >= 2 * den THEN 1 + Log2Floor(num, 2 * den)
    ELSE IF num < den THEN Log2Floor(2 * num, den) - 1
    ELSE 0

\* 2^k mod m.
RECURSIVE Pow2Mod(_, _)
Pow2Mod(k, m) == IF k = 0 THEN 1 % m ELSE (2 * Pow2Mod(k - 1, m)) % m

IsPow2(n) == n = Pow2(Log2Floor(n, 1))

\* The rounding error c of fl(num / den): den * round(num * 2^K / den)
\* - num * 2^K, which is the residue of -(num * 2^K) modulo den nearest 0.
RoundingError(num, den) ==
    LET K == 52 - Log2Floor(num, den)
        r == ((num % den) * Pow2Mod(K, den)) % den
    IN  IF 2 * r < den THEN 0 - r ELSE den - r

\* (fl(fl(num / den) * mul)) as u32, for 0 <= num <= den and mul >= 0: the
\* quotient rounded to a double, its product with mul rounded to a double,
\* the fraction cut off.  The exact product is num * mul / den plus
\* c * mul / (den * 2^K); when num * mul / den is an integer N and c < 0 the
\* product lies below N, and it rounds to a double below N (so that N - 1
\* results) exactly when it is more than half a spacing away from N.
ScaledTrunc(num, den, mul) ==
    LET T == num * mul
        N == T \div den
    IN  IF num = den THEN mul
        ELSE IF T % den # 0 \/ N = 0 THEN N
        ELSE LET e == Log2Floor(num, den)
                 c == RoundingError(num, den)
                 k == Log2Floor(N, 1)
                 away == (IF IsPow2(N) THEN 2 ELSE 1) * (0 - c) * mul
                 half == den * Pow2(k - e - 1)
             IN  IF c < 0 /\ away > half THEN N - 1 ELSE N

\* Mutant of pwm_to_rpm: the ratio taken of 256 steps.
pwm_to_rpm_of_256(min_rpm, max_rpm, pwm) ==
    min_rpm + ScaledTrunc(pwm, 256, max_rpm - min_rpm)

\* fn pwm_to_rpm: let ratio = pwm as f64 / 255.0;
\* min_rpm + (ratio * (max_rpm - min_rpm) as f64) as u32
pwm_to_rpm(min_rpm, max_rpm, pwm) ==
    min_rpm + ScaledTrunc(pwm, 255, max_rpm - min_rpm)

\* Mutant of rpm_to_pwm: the ratio taken in integers, before the scaling.
rpm_to_pwm_integer_ratio(min_rpm, max_rpm, rpm) ==
    IF rpm <= min_rpm THEN 0
    ELSE IF rpm >= max_rpm THEN 255
    ELSE ((rpm - min_rpm) \div (max_rpm - min_rpm)) * 255

\* Mutant of rpm_to_pwm: the upper end is looked at first.
rpm_to_pwm_upper_first(min_rpm, max_rpm, rpm) ==
    IF rpm >= max_rpm THEN 255
    ELSE IF rpm <= min_rpm THEN 0
    ELSE ScaledTrunc(rpm - min_rpm, max_rpm - min_rpm, 255)

\* fn rpm_to_pwm: 0 at or below min_rpm, 255 at or above max_rpm, else
\* let ratio = (rpm - min_rpm) as f64 / (max_rpm - min_rpm) as f64;
\* (ratio * 255.0) as u8
rpm_to_pwm(min_rpm, max_rpm, rpm) ==
    IF rpm <= min_rpm THEN 0
    ELSE IF rpm >= max_rpm THEN 255
    ELSE ScaledTrunc(rpm - min_rpm, max_rpm - min_rpm, 255)

\* pwm_to_rpm(min_rpm, max_rpm, pwm) is called.
PwmToRpm ==
    /\ range # <<>>
    /\ target_rpm = {}
    /\ target_rpm' = {pwm_to_rpm(range.min_rpm, range.max_rpm, duty)}
    /\ UNCHANGED <<OtherThanPwm, range, duty, returned>>

\* rpm_to_pwm is called with the RPM that pwm_to_rpm returned.
RpmToPwm ==
    /\ range # <<>>
    /\ returned = NotCalled
    /\ \E rpm \in target_rpm :
         returned' = Returned("rpm_to_pwm",
                              <<rpm_to_pwm(range.min_rpm, range.max_rpm, rpm)>>)
    /\ UNCHANGED <<OtherThanPwm, pwm_vars>>

\* The speeds a fan may report around a range.
SpeedsAround(r) ==
    {0, r.min_rpm - 1, r.min_rpm, r.min_rpm + 1, r.max_rpm, r.max_rpm + 1}

\* rpm_to_pwm is called with the speed a fan reports (discover).
RpmToPwmOfSpeed ==
    /\ range # <<>>
    /\ returned = NotCalled
    /\ \E rpm \in SpeedsAround(range) :
         returned' = Returned("rpm_to_pwm(speed)",
                              <<rpm, rpm_to_pwm(range.min_rpm, range.max_rpm, rpm)>>)
    /\ UNCHANGED <<OtherThanPwm, pwm_vars>>

PwmInit ==
    /\ WorkerInit
    /\ EditIdle
    /\ HwIdle
    /\ LinuxIdle
    /\ CallIdle
    /\ CurveIdle
    /\ ParseIdle
    /\ range \in Ranges
    /\ duty \in U8
    /\ target_rpm = {}

PwmNext == PwmToRpm \/ RpmToPwm \/ RpmToPwmOfSpeed

\* One range, one duty, converted to RPM and back.
PwmSpec == PwmInit /\ [][PwmNext]_vars

\* The round trip has been made.
RoundTripDone == returned.call = "rpm_to_pwm"

\* |a - b| <= 1
WithinOne(a, b) == a - b \in {-1, 0, 1}

\* C13 as stated: for every range and every pwm, the round trip through
\* pwm_to_rpm and rpm_to_pwm differs from pwm by at most 1.  (Violated for
\* a narrow range: with max_rpm - min_rpm = 1 every pwm below 255 comes
\* back as 0.)
C13_AsStated ==
    RoundTripDone => WithinOne(returned.value[1], duty)

\* C13 amended: for every range at least 255 RPM wide and every pwm, the
\* round trip differs from pwm by at most 1 (and is never above pwm).
C13_RoundTripOnWideRange ==
    (RoundTripDone /\ range.max_rpm - range.min_rpm >= 255) =>
        /\ WithinOne(returned.value[1], duty)
        /\ returned.value[1] <= duty

\* C13 witness: on a range 306 RPM wide, pwm 155 became min_rpm + 185 (the
\* f64 product fell short of 186) and came back as 154.
C13_Witness ==
    /\ RoundTripDone
    /\ range.max_rpm - range.min_rpm = 306
    /\ duty = 155
    /\ target_rpm = {range.min_rpm + 185}
    /\ returned.value = <<154>>

\* C14: pwm_to_rpm maps pwm 0 to min_rpm and pwm 255 to max_rpm, for every
\* range.
C14_EndsOfTheRange ==
    target_rpm # {} =>
        /\ duty = 0 => target_rpm = {range.min_rpm}
        /\ duty = 255 => target_rpm = {range.max_rpm}

\* C14 witness: pwm 255 was converted on the default range.
C14_Witness ==
    /\ duty = 255
    /\ range = FanRpmRange(DEFAULT_MIN_RPM, DEFAULT_MAX_RPM)
    /\ target_rpm = {DEFAULT_MAX_RPM}

\* ======================================================================
\* The vendor table parser and LenovoFanController::discover
\* (platform/lenovo.rs)
\* ======================================================================

\* Lines of the text handed to discover().
MaxLines == 3

\* Text is a sequence of tokens: the separators, a blank, and words.  A word
\* stands for a run of characters holding no separator and no blank.
Bar == "|"
Comma == ","
Blank == " "

\* The words that are decimal numerals of a u32, with their values; every
\* other word ("x") is none.
Decimal ==
    {<<"0", 0>>, <<"1", 1>>, <<"3", 3>>, <<"4", 4>>, <<"45", 45>>, <<"58", 58>>,
     <<"63", 63>>, <<"100", 100>>, <<"1000", 1000>>, <<"1600", 1600>>,
     <<"2100", 2100>>, <<"4800", 4800>>}

\* Option<T>.
None == <<>>
Some(x) == <<x>>
UnwrapOr(option, default) == IF option = None THEN default ELSE option[1]

\* The text as written: a row is its fields, a field its comma-separated
\* items, an item its tokens.
Word(w) == <<w>>
Field(w) == <<Word(w)>>

RECURSIVE Join(_, _)
Join(pieces, sep) ==
    IF pieces = <<>> THEN <<>>
    ELSE IF Len(pieces) = 1 THEN pieces[1]
    ELSE pieces[1] \o <<sep>> \o Join(Tail(pieces), sep)

\* The line of a row: items joined by commas, fields by bars.
Render(row) == Join([i \in 1..Len(row) |-> Join(row[i], Comma)], Bar)

\* TABLE|0|3|1|1600|4800|58|100|1600,4800|58,100
TableRowA ==
    <<Field("TABLE"), Field("0"), Field("3"), Field("1"), Field("1600"),
      Field("4800"), Field("58"), Field("100"),
      <<Word("1600"), Word("4800")>>, <<Word("58"), Word("100")>>>>

\* TABLE|0|4|0|1000|2100|58|100|1000,x,2100|58,63,100: the same fan, a
\* range that starts and ends lower, a speed that is no number, a temperature
\* more than speeds.
TableRowB ==
    <<Field("TABLE"), Field("0"), Field("4"), Field("0"), Field("1000"),
      Field("2100"), Field("58"), Field("100"),
      <<Word("1000"), Word("x"), Word("2100")>>,
      <<Word("58"), Word("63"), Word("100")>>>>

\* TABLE|1|3|1| 1600|4800|58|100| 1600 |58|x: the other fan, blanks around
\* values, an eleventh field.
TableRowC ==
    <<Field("TABLE"), Field("1"), Field("3"), Field("1"),
      <<<<Blank, "1600">>>>, Field("4800"), Field("58"), Field("100"),
      <<<<Blank, "1600", Blank>>>>, Field("58"), Field("x")>>

\* TABLE|0|3|1|1600|4800|58|100|1600,4800: nine fields.
TableRowShort ==
    <<Field("TABLE"), Field("0"), Field("3"), Field("1"), Field("1600"),
      Field("4800"), Field("58"), Field("100"),
      <<Word("1600"), Word("4800")>>>>

\* FAN|0|3|2100|45 and FAN|1|3|4800|45
FanRow0 == <<Field("FAN"), Field("0"), Field("3"), Field("2100"), Field("45")>>
FanRow1 == <<Field("FAN"), Field("1"), Field("3"), Field("4800"), Field("45")>>

\* FAN|0|3|2100: four fields.
FanRowShort == <<Field("FAN"), Field("0"), Field("3"), Field("2100")>>

\* FULLSPEED|1 and FULLSPEED|0
FullSpeedOn == <<Field("FULLSPEED"), Field("1")>>
FullSpeedOff == <<Field("FULLSPEED"), Field("0")>>

Rows ==
    {TableRowA, TableRowB, TableRowC, TableRowShort,
     FanRow0, FanRow1, FanRowShort, FullSpeedOn, FullSpeedOff}

\* The texts drawn: every sequence of up to MaxLines of these lines.
Streams == UNION {[1..n -> {Render(row) : row \in Rows}] : n \in 0..MaxLines}

\* str::split: the pieces between the separators (one more than there are
\* separators).
RECURSIVE Split(_, _)
Split(text, sep) ==
    IF text = <<>> THEN <<<<>>>>
    ELSE LET rest == Split(Tail(text), sep)
         IN  IF Head(text) = sep
             THEN <<<<>>>> \o rest
             ELSE <<<<Head(text)>> \o Head(rest)>> \o Tail(rest)

\* str::trim.
RECURSIVE TrimStart(_)
TrimStart(text) ==
    IF text # <<>> /\ Head(text) = Blank THEN TrimStart(Tail(text)) ELSE text

RECURSIVE TrimEnd(_)
TrimEnd(text) ==
    IF text # <<>> /\ text[Len(text)] = Blank
    THEN TrimEnd(SubSeq(text, 1, Len(text) - 1))
    ELSE text

Trim(text) == TrimEnd(TrimStart(text))

\* str::parse::<u32>().ok(): a number only when the text is one numeral.
ParseU32(text) ==
    IF Len(text) = 1 /\ \E d \in Decimal : d[1] = text[1]
    THEN Some((CHOOSE d \in Decimal : d[1] = text[1])[2])
    ELSE None

\* str::starts_with / strip_prefix.
StartsWith(text, prefix) ==
    Len(text) >= Len(prefix) /\ SubSeq(text, 1, Len(prefix)) = prefix

StripPrefix(text, prefix) == SubSeq(text, Len(prefix) + 1, Len(text))

\* Mutant of ParseItems: an item that is no number counts as 0 (unwrap_or).
RECURSIVE ParseItemsOrZero(_)
ParseItemsOrZero(items) ==
    IF items = <<>> THEN <<>>
    ELSE <<UnwrapOr(ParseU32(Trim(Head(items))), 0)>> \o ParseItemsOrZero(Tail(items))

\* .filter_map(|s| s.trim().parse().ok()).collect(): the items that are
\* numbers, in order; the others are dropped.
RECURSIVE ParseItems(_)
ParseItems(items) ==
    IF items = <<>> THEN <<>>
    ELSE LET parsed == ParseU32(Trim(Head(items)))
         IN  (IF parsed = None THEN <<>> ELSE <<parsed[1]>>) \o ParseItems(Tail(items))

Min(a, b) == IF a < b THEN a ELSE b

\* fn parse_table_line: Some((FanCurve, FanRpmRange)), or None for a line
\* with fewer than 10 fields.
parse_table_line(line) ==
    LET parts == Split(line, Bar)
        number(i) == UnwrapOr(ParseU32(Trim(parts[i + 1])), 0)
        speeds == ParseItems(Split(parts[9], Comma))
        temps == ParseItems(Split(parts[10], Comma))
        point_count == Min(Len(speeds), Len(temps))
        points == [i \in 1..point_count |-> FanCurvePoint(temps[i], speeds[i])]
    IN  IF Len(parts) < 10 THEN None
        ELSE Some([curve_of |-> FanCurve(number(1), number(2), number(4), number(5),
                                         number(6), number(7), points,
                                         Trim(parts[4]) = <<"1">>),
                   range_of |-> FanRpmRange(number(4), number(5))])

\* struct Fan, as parse_fan_line fills it.  The id "fan<fan_id>" is the
\* prefix and the number; the label is the name and the temperature.
Fan(fan_id, temp, speed_rpm, pwm, min_rpm, max_rpm, curves, full_speed_active) ==
    [id |-> <<"fan", fan_id>>,
     label |-> <<CASE fan_id = 0 -> "CPU Fan" [] fan_id = 1 -> "GPU Fan"
                   [] OTHER -> "Fan", temp>>,
     speed_rpm |-> speed_rpm, pwm |-> pwm, controllable |-> TRUE,
     min_rpm |-> min_rpm, max_rpm |-> max_rpm, curves |-> curves,
     full_speed_active |-> full_speed_active]

\* Mutant of TakeCurves: the curves are copied, the map keeps them.
TakeCurvesKeeps(curves_by_fan, fan_id) == curves_by_fan

\* curves_by_fan.remove(&fan_id): the map after the fan's curves are taken.
TakeCurves(curves_by_fan, fan_id) == Remove(curves_by_fan, fan_id)

\* fn parse_fan_line: the Fan (None for a line with fewer than 5 fields)
\* and curves_by_fan as the call leaves it.
parse_fan_line(line, rpm_ranges, curves_by_fan, full_speed_active) ==
    LET parts == Split(line, Bar)
        number(i) == UnwrapOr(ParseU32(Trim(parts[i + 1])), 0)
        fan_id == number(1)
        speed_rpm == number(3)
        known == fan_id \in DOMAIN rpm_ranges
        lo == IF known THEN rpm_ranges[fan_id].min_rpm ELSE DEFAULT_MIN_RPM
        hi == IF known THEN rpm_ranges[fan_id].max_rpm ELSE DEFAULT_MAX_RPM
        curves == IF fan_id \in DOMAIN curves_by_fan
                  THEN curves_by_fan[fan_id] ELSE <<>>
    IN  IF Len(parts) < 5
        THEN [fan |-> None, curves_by_fan |-> curves_by_fan]
        ELSE [fan |-> Some(Fan(fan_id, number(4), speed_rpm,
                               Some(rpm_to_pwm(lo, hi, speed_rpm)),
                               IF known THEN Some(lo) ELSE None,
                               IF known THEN Some(hi) ELSE None,
                               curves, full_speed_active)),
              curves_by_fan |-> TakeCurves(curves_by_fan, fan_id)]

\* fn parse_fullspeed: the value of the first FULLSPEED| line, false
\* without one.
RECURSIVE parse_fullspeed(_)
parse_fullspeed(lines) ==
    IF lines = <<>> THEN FALSE
    ELSE IF StartsWith(Head(lines), <<"FULLSPEED", Bar>>)
    THEN Trim(StripPrefix(Head(lines), <<"FULLSPEED", Bar>>)) = <<"1">>
    ELSE parse_fullspeed(Tail(lines))

\* Mutant of OrInsert: the entry is replaced (insert).
OrInsertOverwrites(map, key, value) ==
    [k \in DOMAIN map \cup {key} |-> IF k = key THEN value ELSE map[k]]

\* HashMap::entry(key).or_insert(value): an entry there is kept.
OrInsert(map, key, value) ==
    [k \in DOMAIN map \cup {key} |-> IF k \in DOMAIN map THEN map[k] ELSE value]

\* Mutant of AfterMalformed: the pass ends at a line that is too short.
AfterMalformedBreak(lines) == <<>>

\* `continue` after a line that is too short: the pass goes on with the
\* lines after it.
AfterMalformed(lines) == lines

\* discover(), first pass: the TABLE| lines fill curves_by_fan and
\* rpm_ranges (the widest range over a fan's tables).
RECURSIVE TablePass(_, _)
TablePass(lines, acc) ==
    IF lines = <<>> THEN acc
    ELSE LET line == Head(lines)
             parsed == parse_table_line(line)
         IN  IF ~StartsWith(line, <<"TABLE", Bar>>)
             THEN TablePass(Tail(lines), acc)
             ELSE IF parsed = None
             THEN TablePass(AfterMalformed(Tail(lines)), acc)
             ELSE LET c == parsed[1].curve_of
                      r == parsed[1].range_of
                      before == IF c.fan_id \in DOMAIN acc.curves_by_fan
                                THEN acc.curves_by_fan[c.fan_id] ELSE <<>>
                      existing == OrInsert(acc.rpm_ranges, c.fan_id, r)[c.fan_id]
                      widest ==
                          FanRpmRange(
                              IF r.min_rpm < existing.min_rpm
                              THEN r.min_rpm ELSE existing.min_rpm,
                              IF r.max_rpm > existing.max_rpm
                              THEN r.max_rpm ELSE existing.max_rpm)
                  IN  TablePass(Tail(lines),
                          [curves_by_fan |->
                               Insert(acc.curves_by_fan, c.fan_id, Append(before, c)),
                           rpm_ranges |->
                               Insert(acc.rpm_ranges, c.fan_id, widest)])

\* discover(), second pass: the FAN| lines become Fans, in order.
RECURSIVE FanPass(_, _, _, _)
FanPass(lines, rpm_ranges, curves_by_fan, full_speed_active) ==
    IF lines = <<>> THEN <<>>
    ELSE LET line == Head(lines)
             parsed == parse_fan_line(line, rpm_ranges, curves_by_fan,
                                      full_speed_active)
         IN  IF ~StartsWith(line, <<"FAN", Bar>>)
             THEN FanPass(Tail(lines), rpm_ranges, curves_by_fan, full_speed_active)
             ELSE IF parsed.fan = None
             THEN FanPass(AfterMalformed(Tail(lines)), rpm_ranges,
                          parsed.curves_by_fan, full_speed_active)
             ELSE <<parsed.fan[1]>> \o
                  FanPass(Tail(lines), rpm_ranges, parsed.curves_by_fan,
                          full_speed_active)

\* LenovoFanController::discover on the text ps_command returned: the Fans
\* returned and the ranges stored in fan_ranges.
discover(lines) ==
    LET tables == TablePass(lines, [curves_by_fan |-> EmptyMap,
                                    rpm_ranges |-> EmptyMap])
    IN  [fans |-> FanPass(lines, tables.rpm_ranges, tables.curves_by_fan,
                          parse_fullspeed(lines)),
         fan_ranges |-> tables.rpm_ranges]

\* Result<Vec<Fan>, FanControlError>.
OkOf(value) == <<"Ok", value>>

\* parse_table_line is called on the first line of the text.
ParseTableLine ==
    /\ output # <<>>
    /\ returned = NotCalled
    /\ returned' = Returned("parse_table_line", parse_table_line(output[1]))
    /\ UNCHANGED <<OtherThanParse, parse_vars>>

\* LenovoFanController::discover: ps_command fails (Platform), or returns
\* the text, which is parsed.
Discover ==
    /\ returned = NotCalled
    /\ \E ps_ok \in BOOLEAN :
         IF ps_ok
         THEN /\ returned' = Returned("LenovoFanController::discover",
                                      OkOf(discover(output).fans))
              /\ fan_ranges' = discover(output).fan_ranges
         ELSE /\ returned' = Returned("LenovoFanController::discover",
                                      Platform("powershell error"))
              /\ fan_ranges' = fan_ranges
    /\ UNCHANGED <<OtherThanParse, output>>

ParseInit ==
    /\ WorkerInit
    /\ EditIdle
    /\ HwIdle
    /\ LinuxIdle
    /\ CallIdle
    /\ CurveIdle
    /\ PwmIdle
    /\ output \in Streams
    /\ fan_ranges = EmptyMap

ParseNext == ParseTableLine \/ Discover

\* One text, parsed by one call of parse_table_line or of discover().
ParseSpec == ParseInit /\ [][ParseNext]_vars

\* ----------------------------------------------------------------------
\* Claims about the parser
\* ----------------------------------------------------------------------

\* The row a line of the text was written from.
RowOf(line) == CHOOSE row \in Rows : Render(row) = line

\* The numbers written in a field: its items that are one numeral (blanks
\* aside), in order.
Unblank(item) == SelectSeq(item, LAMBDA t : t # Blank)
IsNumeral(item) == Len(Unblank(item)) = 1 /\ \E d \in Decimal : d[1] = Unblank(item)[1]
ValueOf(item) == (CHOOSE d \in Decimal : d[1] = Unblank(item)[1])[2]
Values(field) ==
    LET numerals == SelectSeq(field, IsNumeral)
    IN  [i \in 1..Len(numerals) |-> ValueOf(numerals[i])]

\* C15: parsing a TABLE line with at least 10 fields yields one curve whose
\* number of points is the smaller of the number of parsed speeds and of
\* parsed temperatures, whose point i is (temps[i], speeds[i]), and whose
\* active flag is true exactly when the active field is "1"; the values
\* left over are dropped without error.
C15_TableLinePairsPoints ==
    (returned.call = "parse_table_line" /\ Len(RowOf(output[1])) >= 10) =>
        LET row == RowOf(output[1])
            speeds == Values(row[9])
            temps == Values(row[10])
        IN  /\ Len(returned.value) = 1
            /\ LET c == returned.value[1].curve_of
               IN  /\ Len(c.points) = Min(Len(speeds), Len(temps))
                   /\ \A i \in 1..Len(c.points) :
                        c.points[i] = FanCurvePoint(temps[i], speeds[i])
                   /\ c.active = (row[4] = Field("1"))

\* C15 witness: three temperatures and two speeds that are numbers gave
\* two points and an inactive curve.
C15_Witness ==
    /\ returned.call = "parse_table_line"
    /\ output[1] = Render(TableRowB)
    /\ returned.value # None
    /\ returned.value[1].curve_of.points =
           <<FanCurvePoint(58, 1000), FanCurvePoint(63, 2100)>>
    /\ ~returned.value[1].curve_of.active

\* What a line is, by the row it was written from.
IsTableRow(row) == row[1] = Field("TABLE")
IsFanRow(row) == row[1] = Field("FAN")
Malformed(line) ==
    \/ IsTableRow(RowOf(line)) /\ Len(RowOf(line)) < 10
    \/ IsFanRow(RowOf(line)) /\ Len(RowOf(line)) < 5
WellFormedTable(line) == IsTableRow(RowOf(line)) /\ Len(RowOf(line)) >= 10
WellFormedFan(line) == IsFanRow(RowOf(line)) /\ Len(RowOf(line)) >= 5
NotMalformed(line) == ~Malformed(line)

\* discover() was called and ps_command gave it the text.
Discovered ==
    /\ returned.call = "LenovoFanController::discover"
    /\ returned.value # Platform("powershell error")

\* The curves of the well-formed TABLE lines of a text.
TableCurves(lines) ==
    {parse_table_line(lines[i])[1].curve_of :
        i \in {j \in 1..Len(lines) : WellFormedTable(lines[j])}}

\* C16: malformed lines are skipped, not fatal: a TABLE line with fewer
\* than 10 fields yields no curve, a FAN line with fewer than 5 fields yields
\* no fan, and discover() still succeeds and returns exactly the fans and
\* curves of the well-formed lines: what it returns for the text without
\* the malformed lines.
C16_MalformedLinesSkipped ==
    /\ returned.call = "parse_table_line" /\ Malformed(output[1])
           => returned.value = None
    /\ Discovered =>
           LET fans_found == returned.value[2]
               fan_lines == SelectSeq(output, WellFormedFan)
           IN  /\ returned.value[1] = "Ok"
               /\ returned.value = OkOf(discover(SelectSeq(output, NotMalformed)).fans)
               /\ Len(fans_found) = Len(fan_lines)
               /\ \A i \in 1..Len(fans_found) :
                    /\ fans_found[i].id = <<"fan", ValueOf(RowOf(fan_lines[i])[2][1])>>
                    /\ \A k \in 1..Len(fans_found[i].curves) :
                         fans_found[i].curves[k] \in TableCurves(output)

\* C16 witness: a short TABLE line, a short FAN line and a FAN line gave the
\* one fan of the last line.
C16_Witness ==
    /\ Discovered
    /\ output = <<Render(TableRowShort), Render(FanRowShort), Render(FanRow0)>>
    /\ Len(returned.value[2]) = 1
    /\ returned.value[2][1].id = <<"fan", 0>>
    /\ returned.value[2][1].curves = <<>>

\* The well-formed TABLE rows of a text, and the fans they name.
TableRows(lines) == {RowOf(lines[i]) : i \in {j \in 1..Len(lines) : WellFormedTable(lines[j])}}
TableRowsOf(lines, fan_id) == {row \in TableRows(lines) : ValueOf(row[2][1]) = fan_id}
FansWithTable(lines) == {ValueOf(row[2][1]) : row \in TableRows(lines)}
Least(S) == CHOOSE x \in S : \A y \in S : x <= y
Greatest(S) == CHOOSE x \in S : \A y \in S : x >= y

\* C17: after discover(), the learned range of each fan is the least
\* min_speed and the greatest max_speed over the well-formed TABLE lines of
\* that fan, whatever their order; a fan without TABLE line has no learned
\* range: its pwm is converted with 1600..4800 and its min_rpm and max_rpm
\* are absent.
C17_LearnedRangeIsUnion ==
    Discovered =>
        /\ DOMAIN fan_ranges = FansWithTable(output)
        /\ \A f \in DOMAIN fan_ranges :
             fan_ranges[f] =
                 FanRpmRange(
                     Least({ValueOf(row[5][1]) : row \in TableRowsOf(output, f)}),
                     Greatest({ValueOf(row[6][1]) : row \in TableRowsOf(output, f)}))
        /\ \A i \in 1..Len(returned.value[2]) :
             LET fan == returned.value[2][i]
                 f == fan.id[2]
             IN  IF f \in FansWithTable(output)
                 THEN /\ fan.min_rpm = Some(fan_ranges[f].min_rpm)
                      /\ fan.max_rpm = Some(fan_ranges[f].max_rpm)
                 ELSE /\ fan.min_rpm = None
                      /\ fan.max_rpm = None
                      /\ fan.pwm = Some(rpm_to_pwm(DEFAULT_MIN_RPM, DEFAULT_MAX_RPM,
                                                   fan.speed_rpm))

\* C17 witness: two tables of fan 0, the lower one first, gave 1000..4800;
\* fan 1, without table, was reported without range and at duty 255.
C17_Witness ==
    /\ Discovered
    /\ output = <<Render(TableRowB), Render(TableRowA), Render(FanRow1)>>
    /\ fan_ranges = Insert(EmptyMap, 0, FanRpmRange(1000, 4800))
    /\ returned.value[2][1].min_rpm = None
    /\ returned.value[2][1].pwm = Some(255)

\* The flag of the first FULLSPEED line of a text, false without one.
IsFullSpeedLine(line) == RowOf(line)[1] = Field("FULLSPEED")
FullSpeedFlag(lines) ==
    LET flags == SelectSeq(lines, IsFullSpeedLine)
    IN  flags # <<>> /\ RowOf(flags[1])[2] = Field("1")

\* The curves of the well-formed TABLE lines of a fan, in the order of the
\* text.
CurvesOf(lines, fan_id) ==
    LET ofFan(line) == WellFormedTable(line) /\ ValueOf(RowOf(line)[2][1]) = fan_id
        tables == SelectSeq(lines, ofFan)
    IN  [i \in 1..Len(tables) |-> parse_table_line(tables[i])[1].curve_of]

\* The i-th well-formed FAN line is the first one of its fan.
FirstOfItsFan(fan_lines, i) ==
    \A j \in 1..(i - 1) : RowOf(fan_lines[j])[2] # RowOf(fan_lines[i])[2]

Slash == 47
Hwmon == <<104, 119, 109, 111, 110>>
FanPrefix == <<102, 97, 110>>
InputSuffix == <<95, 105, 110, 112, 117, 116>>
LabelSuffix == <<95, 108, 97, 98, 101, 108>>
PwmPrefix == <<112, 119, 109>>
EnableSuffix == <<95, 101, 110, 97, 98, 108, 101>>

\* format!("{}", n): the decimal digits of n.
RECURSIVE to_string(_)
to_string(n) ==
    IF n < 10 THEN <<48 + n>> ELSE to_string(n \div 10) \o <<48 + (n % 10)>>

HwmonName(h) == Hwmon \o to_string(h)
InputName(fan_index) == FanPrefix \o fan_index \o InputSuffix
LabelName(fan_index) == FanPrefix \o fan_index \o LabelSuffix
PwmName(fan_index) == PwmPrefix \o fan_index
PwmEnableName(fan_index) == PwmPrefix \o fan_index \o EnableSuffix

\* format!("{}/fan{}", hwmon_name, fan_index)
FanIdOf(hwmon_name, fan_index) == hwmon_name \o <<Slash>> \o FanPrefix \o fan_index

\* The directories and files drawn: hwmon2 and hwmon10, each with any of
\* fan1, fan2 and fan10; pwm1 beside every fan1_input, or beside none: with
\* pwm1_enable in automatic mode (2) or left in manual mode (1), or read-only
\* and without pwm1_enable.
HwmonIndices == {2, 10}
FanIndices == {1, 2, 10}
PwmKinds == {"none", "automatic", "manual", "readonly"}

\* A file: its text as a number (<<>>: text that is no number) and its
\* permissions.
File(text, readonly) == [text |-> text, readonly |-> readonly]

Tree(fans_of, pwm_kind) ==
    LET inputs == UNION {{<<HwmonName(h), InputName(to_string(f))>> : f \in fans_of[h]} :
                             h \in DOMAIN fans_of}
        with_fan1 == {h \in DOMAIN fans_of : 1 \in fans_of[h]}
        pwms == IF pwm_kind = "none" THEN {}
                ELSE {<<HwmonName(h), PwmName(to_string(1))>> : h \in with_fan1}
        enables == IF pwm_kind \in {"automatic", "manual"}
                   THEN {<<HwmonName(h), PwmEnableName(to_string(1))>> : h \in with_fan1}
                   ELSE {}
    IN  [base |-> "dir",
         dirs |-> {HwmonName(h) : h \in DOMAIN fans_of},
         files |-> [path \in inputs \cup pwms \cup enables |->
                       IF path \in pwms
                       THEN File(<<128>>, pwm_kind = "readonly")
                       ELSE IF path \in enables
                       THEN File(<<IF pwm_kind = "manual" THEN 1 ELSE 2>>, FALSE)
                       ELSE File(<<1000>>, TRUE)]]

Trees ==
    {[base |-> "missing", dirs |-> {}, files |-> EmptyMap]} \cup
    {Tree(fans_of, pwm_kind) :
        fans_of \in UNION {[H -> SUBSET FanIndices] : H \in SUBSET HwmonIndices},
        pwm_kind \in PwmKinds}

\* The fan ids handed to set_pwm: fans that may be there, a directory that
\* is not, an id without '/', one with two, one whose second part is no fan.
FanIds ==
    {FanIdOf(HwmonName(2), to_string(1)), FanIdOf(HwmonName(2), to_string(2)),
     FanIdOf(HwmonName(10), to_string(1)), FanIdOf(HwmonName(7), to_string(1)),
     HwmonName(2),
     FanIdOf(HwmonName(2), to_string(1)) \o <<Slash>> \o FanPrefix,
     HwmonName(2) \o <<Slash>> \o PwmName(to_string(1))}

\* Ord of str and of the paths of one directory: lexicographic on bytes.
RECURSIVE LexLess(_, _)
LexLess(a, b) ==
    IF b = <<>> THEN FALSE
    ELSE IF a = <<>> THEN TRUE
    ELSE IF Head(a) = Head(b) THEN LexLess(Tail(a), Tail(b))
    ELSE Head(a) < Head(b)

\* sort() of the names collected from read_dir.
RECURSIVE Sort(_)
Sort(names) ==
    IF names = {} THEN <<>>
    ELSE LET first == CHOOSE x \in names : \A y \in names \ {x} : LexLess(x, y)
         IN  <<first>> \o Sort(names \ {first})

EndsWith(text, suffix) ==
    Len(text) >= Len(suffix) /\
    SubSeq(text, Len(text) - Len(suffix) + 1, Len(text)) = suffix

StripSuffix(text, suffix) == SubSeq(text, 1, Len(text) - Len(suffix))

\* FanControlError.
FanNotFound(id) == <<"FanNotFound", id>>
NotControllable(id) == <<"NotControllable", id>>
PermissionDenied(what) == <<"PermissionDenied", what>>
Io(what) == <<"Io", what>>

\* Path::exists.
Exists(fs, path) == fs.base = "dir" /\ path \in DOMAIN fs.files

\* read_sysfs_u32(path).ok()
read_sysfs_u32(fs, path) == IF Exists(fs, path) THEN fs.files[path].text ELSE None

\* fn read_fan_label.
read_fan_label(fs, hwmon_name, fan_index) ==
    LET label_path == <<hwmon_name, LabelName(fan_index)>>
    IN  IF Exists(fs, label_path) /\ fs.files[label_path].text # <<>>
        THEN <<"label", fs.files[label_path].text>>
        ELSE <<"Fan", fan_index>>

\* fn read_pwm_state: (controllable, current_pwm).
read_pwm_state(fs, hwmon_name, fan_index) ==
    LET pwm_path == <<hwmon_name, PwmName(fan_index)>>
        current_pwm == read_sysfs_u32(fs, pwm_path)
    IN  IF ~Exists(fs, pwm_path) THEN <<FALSE, None>>
        ELSE <<~fs.files[pwm_path].readonly,
               IF current_pwm = None THEN None ELSE Some(current_pwm[1] % 256)>>

\* fn discover_fans_in_hwmon, the directory read: the Fans of the
\* fan*_input files, sorted by file name.
discover_fans_in_hwmon(fs, hwmon_name) ==
    LET names == {path[2] : path \in {q \in DOMAIN fs.files : q[1] = hwmon_name}}
        fan_inputs == Sort({name \in names :
                               StartsWith(name, FanPrefix) /\ EndsWith(name, InputSuffix)})
    IN  [i \in 1..Len(fan_inputs) |->
            LET fan_index == StripSuffix(StripPrefix(fan_inputs[i], FanPrefix), InputSuffix)
                state == read_pwm_state(fs, hwmon_name, fan_index)
            IN  [id |-> FanIdOf(hwmon_name, fan_index),
                 label |-> read_fan_label(fs, hwmon_name, fan_index),
                 speed_rpm |-> UnwrapOr(read_sysfs_u32(fs, <<hwmon_name, fan_inputs[i]>>), 0),
                 pwm |-> state[2],
                 controllable |-> state[1]]]

RECURSIVE Flatten(_)
Flatten(seqs) == IF seqs = <<>> THEN <<>> ELSE Head(seqs) \o Flatten(Tail(seqs))

\* LinuxFanController::discover.  io is what read_dir meets: "ok", or an
\* error other than NotFound on the base directory or on a hwmon directory.
sysfs_discover(fs, io) ==
    LET hwmon_dirs == Sort({name \in fs.dirs : StartsWith(name, Hwmon)})
    IN  IF fs.base = "missing" THEN OkOf(<<>>)
        ELSE IF io = "base_denied" THEN PermissionDenied(<<>>)
        ELSE IF io = "dir_denied" /\ hwmon_dirs # <<>>
        THEN PermissionDenied(hwmon_dirs[1])
        ELSE OkOf(Flatten([i \in 1..Len(hwmon_dirs) |->
                               discover_fans_in_hwmon(fs, hwmon_dirs[i])]))

\* Mutant of resolve_fan_paths: the input file is not looked for.
resolve_fan_paths_unverified(fs, fan_id) ==
    LET parts == Split(fan_id, Slash)
    IN  IF Len(parts) # 2 THEN FanNotFound(fan_id)
        ELSE IF ~StartsWith(parts[2], FanPrefix) THEN FanNotFound(fan_id)
        ELSE OkOf(<<parts[1], StripPrefix(parts[2], FanPrefix)>>)

\* fn resolve_fan_paths: Ok((hwmon_dir, fan_index)) or FanNotFound.
resolve_fan_paths(fs, fan_id) ==
    LET parts == Split(fan_id, Slash)
        fan_index == StripPrefix(parts[2], FanPrefix)
    IN  IF Len(parts) # 2 THEN FanNotFound(fan_id)
        ELSE IF ~StartsWith(parts[2], FanPrefix) THEN FanNotFound(fan_id)
        ELSE IF ~Exists(fs, <<parts[1], InputName(fan_index)>>) THEN FanNotFound(fan_id)
        ELSE OkOf(<<parts[1], fan_index>>)

\* Mutant of WriteFile: a file that is there keeps its text.
WriteFileKeepsOld(files, path, value) ==
    IF path \in DOMAIN files THEN files
    ELSE [q \in DOMAIN files \cup {path} |->
             IF q = path THEN File(<<value>>, FALSE) ELSE files[q]]

\* fs::write: the file holds the value afterwards (and is there).
WriteFile(files, path, value) ==
    [q \in DOMAIN files \cup {path} |->
        IF q = path
        THEN File(<<value>>, IF path \in DOMAIN files THEN files[path].readonly ELSE FALSE)
        ELSE files[q]]

\* LinuxFanController::set_pwm: what it returns, the writes it attempted
\* and the files afterwards.  io is what the writes meet: "ok", or the first
\* or the second write refused or failing otherwise.
sysfs_set_pwm(fs, fan_id, pwm, io) ==
    LET resolved == resolve_fan_paths(fs, fan_id)
        hwmon_dir == resolved[2][1]
        fan_index == resolved[2][2]
        pwm_path == <<hwmon_dir, PwmName(fan_index)>>
        pwm_enable_path == <<hwmon_dir, PwmEnableName(fan_index)>>
        enabled == WriteFile(fs.files, pwm_enable_path, 1)
        nothing == [writes |-> <<>>, files |-> fs.files]
        enable_only == [writes |-> <<<<pwm_enable_path, 1>>>>, files |-> fs.files]
        both == [writes |-> <<<<pwm_enable_path, 1>>, <<pwm_path, pwm>>>>,
                 files |-> enabled]
    IN  IF resolved[1] # "Ok" THEN [result |-> resolved] @@ nothing
        ELSE IF ~Exists(fs, pwm_path)
        THEN [result |-> NotControllable(fan_id)] @@ nothing
        ELSE IF io = "enable_denied"
        THEN [result |-> PermissionDenied(<<"cannot enable manual PWM control", fan_id>>)]
             @@ enable_only
        ELSE IF io = "enable_failed"
        THEN [result |-> Io(pwm_enable_path)] @@ enable_only
        ELSE IF io = "pwm_denied"
        THEN [result |-> PermissionDenied(<<"cannot write PWM value", fan_id>>)] @@ both
        ELSE IF io = "pwm_failed"
        THEN [result |-> Io(pwm_path)] @@ both
        ELSE [result |-> Ok,
              writes |-> both.writes,
              files |-> WriteFile(enabled, pwm_path, pwm)]

SysfsDiscover ==
    /\ returned = NotCalled
    /\ \E io \in {"ok", "base_denied", "dir_denied"} :
         returned' = Returned("LinuxFanController::discover", sysfs_discover(sysfs, io))
    /\ UNCHANGED <<OtherThanLinux, linux_vars>>

SysfsSetPwm ==
    /\ returned = NotCalled
    /\ \E pwm \in {0, 128},
          io \in {"ok", "enable_denied", "enable_failed", "pwm_denied", "pwm_failed"} :
         LET done == sysfs_set_pwm(sysfs, target, pwm, io)
         IN  /\ returned' = Returned("LinuxFanController::set_pwm", done.result)
             /\ written' = done.writes
             /\ sysfs' = [sysfs EXCEPT !.files = done.files]
    /\ UNCHANGED <<OtherThanLinux, target>>

LinuxInit ==
    /\ WorkerInit
    /\ EditIdle
    /\ HwIdle
    /\ CallIdle
    /\ CurveIdle
    /\ PwmIdle
    /\ ParseIdle
    /\ sysfs \in Trees
    /\ target \in FanIds
    /\ written = <<>>

LinuxNext == SysfsDiscover \/ SysfsSetPwm

\* One tree of files and one call of discover() or of set_pwm().
LinuxSpec == LinuxInit /\ [][LinuxNext]_vars

\* ----------------------------------------------------------------------
\* Claims about the sysfs backend
\* ----------------------------------------------------------------------

DiscoverCalled == returned.call = "LinuxFanController::discover"

\* The fans of the tree, as (hwmon index, fan index).
FansInTree ==
    {hf \in HwmonIndices \X FanIndices :
        <<HwmonName(hf[1]), InputName(to_string(hf[2]))>> \in DOMAIN sysfs.files}

\* Pairs in increasing order: by the first number, then by the second.
IndexLess(a, b) == a[1] < b[1] \/ (a[1] = b[1] /\ a[2] < b[2])
RECURSIVE ByIndex(_)
ByIndex(pairs) ==
    IF pairs = {} THEN <<>>
    ELSE LET first == CHOOSE a \in pairs : \A b \in pairs \ {a} : IndexLess(a, b)
         IN  <<first>> \o ByIndex(pairs \ {first})

IdsOf(found) == [i \in 1..Len(found) |-> found[i].id]

\* C19: discover() returns the fans sorted by hwmon index and then by fan
\* index, for any set of hwmon directories and fan{N}_input files (indices of
\* 10 or more included), and returns an empty sequence, not an error, when
\* the base directory does not exist.  (Violated: the names are sorted as
\* text, so hwmon10 comes before hwmon2 and fan10 before fan1.)
C19_AsStated ==
    DiscoverCalled =>
        /\ sysfs.base = "missing" => returned.value = OkOf(<<>>)
        /\ returned.value[1] = "Ok" =>
               IdsOf(returned.value[2]) =
                   [i \in 1..Cardinality(FansInTree) |->
                       FanIdOf(HwmonName(ByIndex(FansInTree)[i][1]),
                               to_string(ByIndex(FansInTree)[i][2]))]

\* C19, what holds: discover() returns one Fan per fan{N}_input file, in
\* the order of the directory names and then of the file names, compared
\* byte by byte; it returns an empty sequence when the base directory does
\* not exist.
C19_SortedByName ==
    DiscoverCalled =>
        /\ sysfs.base = "missing" => returned.value = OkOf(<<>>)
        /\ returned.value[1] = "Ok" =>
               LET ids == IdsOf(returned.value[2])
               IN  /\ {ids[i] : i \in 1..Len(ids)} =
                          {FanIdOf(HwmonName(hf[1]), to_string(hf[2])) : hf \in FansInTree}
                   /\ Len(ids) = Cardinality(FansInTree)
                   /\ \A i \in 1..(Len(ids) - 1) :
                        LET a == Split(ids[i], Slash)
                            b == Split(ids[i + 1], Slash)
                        IN  \/ LexLess(a[1], b[1])
                            \/ a[1] = b[1] /\ LexLess(a[2] \o InputSuffix, b[2] \o InputSuffix)

\* C19 witness: with fan1 in hwmon2 and in hwmon10, discover() returned
\* hwmon10/fan1 before hwmon2/fan1.
C19_Witness ==
    /\ DiscoverCalled
    /\ FansInTree = {<<2, 1>>, <<10, 1>>}
    /\ returned.value[1] = "Ok"
    /\ IdsOf(returned.value[2]) =
           <<FanIdOf(HwmonName(10), to_string(1)), FanIdOf(HwmonName(2), to_string(1))>>

\* The fan id names a fan of the tree: it is hwmon{N}/fan{M} and the file
\* fan{M}_input is in hwmon{N}.
Resolves(id) ==
    \E hf \in FansInTree : id = FanIdOf(HwmonName(hf[1]), to_string(hf[2]))

\* The fan has a pwm{M} file.
HasPwmFile(id) ==
    \E hf \in FansInTree :
        /\ id = FanIdOf(HwmonName(hf[1]), to_string(hf[2]))
        /\ <<HwmonName(hf[1]), PwmName(to_string(hf[2]))>> \in DOMAIN sysfs.files

\* C20: set_pwm fails with FanNotFound when the fan id does not resolve
\* (wrong format or no fan{N}_input file), and with NotControllable when the
\* fan is there but has no pwm{N} file; FanNotFound comes first (an id
\* that does not resolve never gives NotControllable), and in both cases no
\* file is written.
C20_NotFoundThenNotControllable ==
    [][returned'.call = "LinuxFanController::set_pwm" =>
           /\ ~Resolves(target) =>
                  /\ returned'.value = FanNotFound(target)
                  /\ written' = <<>>
                  /\ sysfs' = sysfs
           /\ (Resolves(target) /\ ~HasPwmFile(target)) =>
                  /\ returned'.value = NotControllable(target)
                  /\ written' = <<>>
                  /\ sysfs' = sysfs
           /\ returned'.value = NotControllable(target) => Resolves(target)]_vars

\* C20 witness: hwmon2 holds fan1_input and neither fan2_input nor a pwm
\* file; set_pwm for hwmon2/fan2 answered FanNotFound and wrote nothing.
C20_Witness ==
    /\ returned.call = "LinuxFanController::set_pwm"
    /\ target = FanIdOf(HwmonName(2), to_string(2))
    /\ FansInTree = {<<2, 1>>}
    /\ ~HasPwmFile(FanIdOf(HwmonName(2), to_string(1)))
    /\ returned.value = FanNotFound(target)
    /\ written = <<>>

\* The pwm{N} and pwm{N}_enable files of the fan the id names.
PwmPathOf(id) == <<Split(id, Slash)[1], PwmName(StripPrefix(Split(id, Slash)[2], FanPrefix))>>
EnablePathOf(id) ==
    <<Split(id, Slash)[1], PwmEnableName(StripPrefix(Split(id, Slash)[2], FanPrefix))>>

SetPwmOnControllable ==
    /\ returned'.call = "LinuxFanController::set_pwm"
    /\ Resolves(target)
    /\ HasPwmFile(target)

\* C21 as stated: on every set_pwm call for a fan that resolves and has a
\* pwm{N} file, "1" is written to pwm{N}_enable first and the duty to pwm{N}
\* second; both writes are attempted on every call, whatever mode earlier
\* calls left, and after a successful call pwm{N}_enable holds 1 and pwm{N}
\* the duty.  (Violated: when the write to pwm{N}_enable fails the call
\* returns and the write to pwm{N} is not attempted.)
C21_AsStated ==
    [][SetPwmOnControllable =>
           /\ Len(written') = 2
           /\ written'[1] = <<EnablePathOf(target), 1>>
           /\ written'[2][1] = PwmPathOf(target)
           /\ returned'.value = Ok =>
                  /\ sysfs'.files[EnablePathOf(target)].text = <<1>>
                  /\ sysfs'.files[PwmPathOf(target)].text = <<written'[2][2]>>]_vars

\* C21 amended: every such call first attempts to write "1" to
\* pwm{N}_enable, whatever mode is there; the write of the duty to pwm{N} is
\* attempted next exactly when that first write did not fail (a failed first
\* write ends the call with its error and leaves the files as they were);
\* after a successful call pwm{N}_enable holds 1 and pwm{N} the duty.
C21_EnableThenDuty ==
    [][SetPwmOnControllable =>
           LET enable_failed ==
                   returned'.value \in
                       {PermissionDenied(<<"cannot enable manual PWM control", target>>),
                        Io(EnablePathOf(target))}
           IN  /\ written' # <<>>
               /\ written'[1] = <<EnablePathOf(target), 1>>
               /\ enable_failed => Len(written') = 1 /\ sysfs' = sysfs
               /\ ~enable_failed =>
                      /\ Len(written') = 2
                      /\ written'[2][1] = PwmPathOf(target)
                      /\ written'[2][2] \in U8
                      /\ sysfs'.files[EnablePathOf(target)].text = <<1>>
               /\ returned'.value = Ok =>
                      sysfs'.files[PwmPathOf(target)].text = <<written'[2][2]>>]_vars

\* C21 witness: the call for hwmon2/fan1 wrote 1 to pwm1_enable, then 128
\* to pwm1, and returned Ok; the files hold 1 and 128.
C21_Witness ==
    /\ returned.call = "LinuxFanController::set_pwm"
    /\ returned.value = Ok
    /\ target = FanIdOf(HwmonName(2), to_string(1))
    /\ written = <<<<EnablePathOf(target), 1>>, <<PwmPathOf(target), 128>>>>
    /\ sysfs.files[PwmPathOf(target)] = File(<<128>>, FALSE)
    /\ sysfs.files[EnablePathOf(target)].text = <<1>>

\* ======================================================================
\* The curve editor: build_curve_from_points (platform/mod.rs), the
\* "Apply Curve" button and the worker's SetCurve arm (gui.rs)
\* ======================================================================

\* Rows of the curve editor.
MaxRows == 3

\* The rows typed: three that make a curve, one with a low speed at 100
\* degrees, one whose temperature is no number, one left empty by "+ Add
\* Point".
EditRows ==
    {<<<<"58">>, <<"1600">>>>, <<<<"63">>, <<"2100">>>>,
     <<<<Blank, "100">>, <<"4800", Blank>>>>, <<<<"100">>, <<"1000">>>>,
     <<<<"x">>, <<"1600">>>>, <<<<>>, <<>>>>}

Edits == UNION {[1..n -> EditRows] : n \in 0..MaxRows}

\* The cached curves being edited: their bounds are not those of the points
\* typed, and one is inactive.
EditedCurves ==
    {FanCurve(0, 3, 1600, 4800, 58, 100,
              <<FanCurvePoint(58, 1600), FanCurvePoint(100, 4800)>>, TRUE),
     FanCurve(1, 4, 1000, 2100, 45, 63,
              <<FanCurvePoint(45, 1000), FanCurvePoint(63, 2100)>>, FALSE)}

\* iter().copied().min().unwrap_or(0) and max().unwrap_or(0)
MinOrZero(values) ==
    IF values = <<>> THEN 0
    ELSE CHOOSE x \in {values[i] : i \in 1..Len(values)} :
             \A i \in 1..Len(values) : x <= values[i]
MaxOrZero(values) ==
    IF values = <<>> THEN 0
    ELSE CHOOSE x \in {values[i] : i \in 1..Len(values)} :
             \A i \in 1..Len(values) : x >= values[i]

\* Mutant of build_curve_from_points: the bounds are always computed from
\* the new points.
build_curve_recomputed(fan_id, sensor_id, points, reference) ==
    LET speeds == [i \in 1..Len(points) |-> points[i].fan_speed]
        temps == [i \in 1..Len(points) |-> points[i].temperature]
    IN  FanCurve(fan_id, sensor_id, MinOrZero(speeds), MaxOrZero(speeds),
                 MinOrZero(temps), MaxOrZero(temps), points, TRUE)

\* fn build_curve_from_points; reference is None or Some(curve).
build_curve_from_points(fan_id, sensor_id, points, reference) ==
    LET speeds == [i \in 1..Len(points) |-> points[i].fan_speed]
        temps == [i \in 1..Len(points) |-> points[i].temperature]
    IN  FanCurve(fan_id, sensor_id,
                 IF reference # None THEN reference[1].min_speed ELSE MinOrZero(speeds),
                 IF reference # None THEN reference[1].max_speed ELSE MaxOrZero(speeds),
                 IF reference # None THEN reference[1].min_temp ELSE MinOrZero(temps),
                 IF reference # None THEN reference[1].max_temp ELSE MaxOrZero(temps),
                 points, TRUE)

\* The loop of "Apply Curve" over edit_points: the points of the rows up to
\* the first one that does not parse, and whether there is such a row.
RECURSIVE ParsePoints(_)
ParsePoints(rows) ==
    IF rows = <<>> THEN [points |-> <<>>, parse_error |-> FALSE]
    ELSE LET t == ParseU32(Trim(Head(rows)[1]))
             r == ParseU32(Trim(Head(rows)[2]))
             rest == ParsePoints(Tail(rows))
         IN  IF t = None \/ r = None
             THEN [points |-> <<>>, parse_error |-> TRUE]
             ELSE [points |-> <<FanCurvePoint(t[1], r[1])>> \o rest.points,
                   parse_error |-> rest.parse_error]

\* Mutant of SendIfAccepted: the new curve is sent whatever the validator
\* said.
SendAlways(queue, new_curve, verdict) == Append(queue, new_curve)

\* match validate_curve(&new_curve) { Ok(()) => command_tx.send(SetCurve
\* { curve: new_curve }), Err(e) => .. }
SendIfAccepted(queue, new_curve, verdict) ==
    IF verdict = Ok THEN Append(queue, new_curve) ELSE queue

\* The "Apply Curve" button was clicked (the editor of a cached curve).
ApplyCurveClicked ==
    /\ curve # <<>>
    /\ Len(curve_commands) + Len(curve_calls) < MaxSends
    /\ LET parsed == ParsePoints(edit_points)
           new_curve == build_curve_from_points(curve.fan_id, curve.sensor_id,
                                                parsed.points, Some(curve))
           verdict == validate_curve(new_curve)
       IN  IF parsed.parse_error
           THEN /\ status_message' = <<"Error", <<"Invalid point: '{}:{}'">>>>
                /\ curve_commands' = curve_commands
           ELSE /\ curve_commands' = SendIfAccepted(curve_commands, new_curve, verdict)
                /\ status_message' = IF verdict = Ok THEN <<"Applying curve...">>
                                     ELSE <<"Validation", verdict[2]>>
    /\ UNCHANGED <<OtherThanEdit, returned, curve, edit_points, curve_calls, curve_responses>>

\* The worker received a SetCurve: controller.set_fan_curve(&curve), then
\* CurveSet or Error is sent.
SetCurveArm ==
    /\ curve_commands # <<>>
    /\ curve_commands' = Tail(curve_commands)
    /\ curve_calls' = Append(curve_calls, Head(curve_commands))
    /\ \E ok \in BOOLEAN :
         curve_responses' =
             Append(curve_responses,
                    IF ok THEN <<"CurveSet", Head(curve_commands).fan_id,
                                 Head(curve_commands).sensor_id>>
                    ELSE <<"Error">>)
    /\ UNCHANGED <<OtherThanEdit, returned, curve, edit_points, status_message>>

\* build_curve_from_points called with the points typed, with or without
\* the curve being edited as reference; `returned` keeps the arguments
\* beside the result.
BuildCurveFromPoints ==
    /\ returned = NotCalled
    /\ \E fan_id \in {0, 1}, sensor_id \in {3, 4}, reference \in {None, Some(curve)} :
         LET points == ParsePoints(edit_points).points
         IN  returned' =
                 Returned("build_curve_from_points",
                          <<[fan_id |-> fan_id, sensor_id |-> sensor_id,
                             points |-> points, reference |-> reference],
                            build_curve_from_points(fan_id, sensor_id, points, reference)>>)
    /\ UNCHANGED <<OtherThanEdit, scripts, curve, edit_vars>>

EditInit ==
    /\ WorkerInit
    /\ HwIdle
    /\ CallIdle
    /\ PwmIdle
    /\ ParseIdle
    /\ LinuxIdle
    /\ curve \in EditedCurves
    /\ edit_points \in Edits
    /\ status_message = <<"Discovering fans...">>
    /\ curve_commands = <<>>
    /\ curve_calls = <<>>
    /\ curve_responses = <<>>

EditNext == ApplyCurveClicked \/ SetCurveArm \/ BuildCurveFromPoints

\* One cached curve, one state of the editor's rows; "Apply Curve" clicked
\* up to MaxSends times, the worker taking the commands.
EditSpec == EditInit /\ [][EditNext]_vars

\* ----------------------------------------------------------------------
\* Claims about the curve editor
\* ----------------------------------------------------------------------

BuildCalled == returned.call = "build_curve_from_points"

\* C22: build_curve_from_points with a reference returns a curve whose
\* min_speed, max_speed, min_temp and max_temp are the reference's, whatever
\* the new points; fan_id, sensor_id and points are the arguments and active
\* is true; only without a reference are the bounds the least and greatest
\* of the points.
C22_BoundsFromReference ==
    BuildCalled =>
        LET given == returned.value[1]
            built == returned.value[2]
            speeds == {given.points[i].fan_speed : i \in 1..Len(given.points)}
            temps == {given.points[i].temperature : i \in 1..Len(given.points)}
        IN  /\ built.fan_id = given.fan_id
            /\ built.sensor_id = given.sensor_id
            /\ built.points = given.points
            /\ built.active
            /\ given.reference # None =>
                   /\ built.min_speed = given.reference[1].min_speed
                   /\ built.max_speed = given.reference[1].max_speed
                   /\ built.min_temp = given.reference[1].min_temp
                   /\ built.max_temp = given.reference[1].max_temp
            /\ (given.reference = None /\ given.points # <<>>) =>
                   /\ built.min_speed = Least(speeds)
                   /\ built.max_speed = Greatest(speeds)
                   /\ built.min_temp = Least(temps)
                   /\ built.max_temp = Greatest(temps)

\* C22 witness: with the inactive curve 1000..2100 RPM, 45..63 degrees as
\* reference and the points (63, 2100), (100, 4800), the curve built is
\* active and keeps 1000..2100 and 45..63.
C22_Witness ==
    /\ BuildCalled
    /\ returned.value[1].reference # None
    /\ ~returned.value[1].reference[1].active
    /\ returned.value[1].points = <<FanCurvePoint(63, 2100), FanCurvePoint(100, 4800)>>
    /\ returned.value[2] =
           FanCurve(returned.value[1].fan_id, returned.value[1].sensor_id,
                    1000, 2100, 45, 63, returned.value[1].points, TRUE)

\* The five invariants of a curve, as the specification lists them.
SafeCurve(c) ==
    /\ AtLeastTwoPoints(c)
    /\ TemperaturesPlausible(c)
    /\ TemperaturesStrictlyIncreasing(c)
    /\ SpeedsNonDecreasing(c)
    /\ LastPointSafe(c)

\* The curve "Apply Curve" would build from the rows as they stand.
EditedCurve ==
    build_curve_from_points(curve.fan_id, curve.sensor_id,
                            ParsePoints(edit_points).points, Some(curve))

\* C23: a SetCurve command is put on the command queue only for a curve
\* that satisfies the five invariants, built from rows that all parse; so
\* every curve waiting in the queue and every curve handed to
\* controller.set_fan_curve satisfies them, and a click on an edit that does
\* not parse or is rejected leaves the queue as it was.
C23_OnlyAcceptedCurvesSent ==
    /\ [](/\ \A i \in 1..Len(curve_commands) : SafeCurve(curve_commands[i])
          /\ \A i \in 1..Len(curve_calls) : SafeCurve(curve_calls[i]))
    /\ [][/\ Len(curve_commands') > Len(curve_commands) =>
               /\ ~ParsePoints(edit_points).parse_error
               /\ SafeCurve(EditedCurve)
               /\ curve_commands' = Append(curve_commands, EditedCurve)
          /\ (ParsePoints(edit_points).parse_error \/ ~SafeCurve(EditedCurve)) =>
               /\ Len(curve_commands') <= Len(curve_commands)
               /\ curve_calls' = curve_calls]_vars

\* C23 witness: the rows 58/1600, 63/2100, " 100"/"4800 " were applied to
\* the curve of fan 0 and the curve built from them reached
\* controller.set_fan_curve.
C23_Witness ==
    /\ status_message = <<"Applying curve...">>
    /\ Len(edit_points) = 3
    /\ Len(curve_calls) = 1
    /\ curve_calls[1] =
           FanCurve(0, 3, 1600, 4800, 58, 100,
                    <<FanCurvePoint(58, 1600), FanCurvePoint(63, 2100),
                      FanCurvePoint(100, 4800)>>, TRUE)

\* An edit that parses and is rejected: the status line shows the
\* validator's message and nothing was sent.
RejectedEditShown ==
    /\ status_message[1] = "Validation"
    /\ curve_commands = <<>>
    /\ curve_calls = <<>>

\* An edit with a row that does not parse: the status line shows the error
\* and nothing was sent.
UnparsableEditShown ==
    /\ status_message[1] = "Error"
    /\ curve_commands = <<>>
    /\ curve_calls = <<>>

\* ----------------------------------------------------------------------
\* Claims about the validator's failure
\* ----------------------------------------------------------------------

\* The invariant a rejected curve is to be reported for: the first one
\* violated in the order of the specification.
FirstViolated(c) ==
    IF ~AtLeastTwoPoints(c) THEN "points"
    ELSE IF ~TemperaturesPlausible(c) THEN "plausible"
    ELSE IF ~TemperaturesStrictlyIncreasing(c) THEN "increasing"
    ELSE IF ~SpeedsNonDecreasing(c) THEN "speed"
    ELSE IF ~LastPointSafe(c) THEN "top"
    ELSE "none"

\* The invariant a message names, read from its text.
InvariantNamed(message) ==
    CASE message[1] = "curve must have at least 2 points" -> "points"
      [] message[1] = "point {} has unreasonable temperature {} (max 150)" -> "plausible"
      [] message[1] = "temperatures must be strictly increasing: {} at point {} is not greater than {} at point {}" -> "increasing"
      [] message[1] = "fan speed must not decrease as temperature rises: {} RPM at {} is less than {} RPM at {}" -> "speed"
      [] message[1] = "highest temperature point ({}) has only {} RPM; must be at least {} RPM (50% of max {})" -> "top"

\* The values formatted into a message.
ValuesNamed(message) == {message[k] : k \in 2..Len(message)}

\* The lowest point, counted from 0, that breaks the invariant.
FailingIndex(c, invariant) ==
    CASE invariant = "plausible" ->
           Least({i \in 1..Len(c.points) : c.points[i].temperature > 150}) - 1
      [] invariant = "increasing" ->
           Least({i \in 2..Len(c.points) :
                    c.points[i].temperature <= c.points[i - 1].temperature}) - 1
      [] invariant = "speed" ->
           Least({i \in 2..Len(c.points) :
                    c.points[i].fan_speed < c.points[i - 1].fan_speed}) - 1

ValidatorRejected == returned.call = "validate_curve" /\ returned.value # Ok

\* C24 as stated: a rejected curve yields InvalidCurve naming the first
\* invariant violated in the order points, plausible, increasing, speed,
\* top, and, for the three invariants that fail at a point, the lowest
\* failing point index.  (Violated: the message for a decreasing speed holds
\* speeds and temperatures and no index.)
C24_AsStated ==
    ValidatorRejected =>
        /\ returned.value[1] = "InvalidCurve"
        /\ InvariantNamed(returned.value[2]) = FirstViolated(curve)
        /\ FirstViolated(curve) \in {"plausible", "increasing", "speed"} =>
               FailingIndex(curve, FirstViolated(curve)) \in ValuesNamed(returned.value[2])

\* C24 amended: a rejected curve yields InvalidCurve naming the first
\* invariant violated in that order.  For a temperature above 150 the
\* message holds the lowest failing index and that temperature; for
\* temperatures not increasing, the lowest failing index i, i - 1 and the two
\* temperatures; for a decreasing speed, the speeds and temperatures of the
\* lowest failing point and the one before it, and no index; for the top
\* point, its temperature and speed, max_speed / 2 and max_speed; for too few
\* points, nothing.
C24_FirstViolationReported ==
    ValidatorRejected =>
        /\ returned.value[1] = "InvalidCurve"
        /\ InvariantNamed(returned.value[2]) = FirstViolated(curve)
        /\ LET message == returned.value[2]
               n == Len(curve.points)
               i == FailingIndex(curve, FirstViolated(curve))
               at(k) == curve.points[k + 1]
           IN  CASE FirstViolated(curve) = "points" -> Len(message) = 1
                 [] FirstViolated(curve) = "plausible" ->
                      Tail(message) = <<i, at(i).temperature>>
                 [] FirstViolated(curve) = "increasing" ->
                      Tail(message) = <<at(i).temperature, i, at(i - 1).temperature, i - 1>>
                 [] FirstViolated(curve) = "speed" ->
                      Tail(message) = <<at(i).fan_speed, at(i).temperature,
                                        at(i - 1).fan_speed, at(i - 1).temperature>>
                 [] FirstViolated(curve) = "top" ->
                      /\ Len(message) = 5
                      /\ message[2] = curve.points[n].temperature
                      /\ message[3] = curve.points[n].fan_speed
                      /\ message[5] = curve.max_speed

\* C24 witness: a three-point curve whose second and third temperatures
\* both fail to rise and whose speed drops as well was rejected for the
\* temperature at point 1 against point 0.
C24_Witness ==
    /\ ValidatorRejected
    /\ Len(curve.points) = 3
    /\ curve.points[2].temperature <= curve.points[1].temperature
    /\ curve.points[3].temperature <= curve.points[2].temperature
    /\ ~SpeedsNonDecreasing(curve)
    /\ InvariantNamed(returned.value[2]) = "increasing"
    /\ returned.value[2][3] = 1
    /\ returned.value[2][5] = 0

\* ----------------------------------------------------------------------
\* Claims about a range with min_rpm = max_rpm
\* ----------------------------------------------------------------------

\* C25: on a range with min_rpm = max_rpm both conversions return a value:
\* pwm_to_rpm returns min_rpm for every pwm, and rpm_to_pwm returns 0 for an
\* rpm at or below min_rpm and 255 for any other.
C25_DegenerateRange ==
    range # <<>> /\ range.min_rpm = range.max_rpm =>
        /\ target_rpm # {} => target_rpm = {range.min_rpm}
        /\ returned.call = "rpm_to_pwm" => returned.value = <<0>>
        /\ returned.call = "rpm_to_pwm(speed)" =>
               /\ returned.value[2] \in U8
               /\ returned.value[1] <= range.min_rpm => returned.value[2] = 0
               /\ returned.value[1] > range.min_rpm => returned.value[2] = 255

\* C25 witness: on the range 1600..1600, pwm 150 became 1600 RPM and a
\* reported speed of 1601 RPM became pwm 255.
C25_Witness ==
    /\ range = FanRpmRange(DEFAULT_MIN_RPM, DEFAULT_MIN_RPM)
    /\ duty = 150
    /\ target_rpm = {DEFAULT_MIN_RPM}
    /\ returned = Returned("rpm_to_pwm(speed)", <<DEFAULT_MIN_RPM + 1, 255>>)

\* On the range 1600..1600 a reported speed of exactly 1600 RPM became pwm 0.
DegenerateAtMin ==
    /\ range = FanRpmRange(DEFAULT_MIN_RPM, DEFAULT_MIN_RPM)
    /\ returned = Returned("rpm_to_pwm(speed)", <<DEFAULT_MIN_RPM, 0>>)

\* ======================================================================
\* Further claims about the worker loop (gui.rs)
\* ======================================================================

\* The types of the responses a step put on the response queue.
SentInStep ==
    [i \in 1..(Len(response_rx') - Len(response_rx)) |->
        response_rx'[Len(response_rx) + i].type]

\* The step in which the SetPwm arm's set_pwm returns.
SetPwmReturns == pc = "set_pwm" /\ pc' # "set_pwm"

\* C26: when the set_pwm call of a SetPwm command fails, held_pwm after the
\* arm is the map before it, whatever the duty, and the response is Error,
\* not PwmSet; PwmSet is sent only when the call succeeded.
C26_FailedSetPwmChangesNothing ==
    [][SetPwmReturns =>
          /\ cycle'.err =>
                /\ held_pwm' = held_pwm
                /\ SentInStep = Delivered("Error")
                /\ cycle'.resps = Delivered("Error")
          /\ ~cycle'.err => SentInStep = Delivered("PwmSet")]_vars

\* C26 witness: fan0 was held at 150; a SetPwm of 255 for it failed, the
\* map still holds 150 and Error was sent.
C26_Witness ==
    /\ cycle.kind = "SetPwm"
    /\ CycleDone
    /\ cycle.err
    /\ cycle.resps = <<"Error">>
    /\ command.fan = "fan0"
    /\ command.pwm = 255
    /\ held_pwm = Insert(EmptyMap, "fan0", 150)

\* C27: held_pwm changes only in the step in which the set_pwm call of a
\* SetPwm command returns Ok (and then as the SetPwm arm prescribes); no
\* step of a Refresh or of a SetCurve changes it, whether their calls
\* succeed or fail.
C27_OnlySuccessfulSetPwmChangesHeld ==
    [][/\ held_pwm' # held_pwm =>
            /\ SetPwmReturns
            /\ command.kind = "SetPwm"
            /\ ~cycle'.err
            /\ held_pwm' = HeldAfterSet(held_pwm, command.fan, command.pwm)
       /\ (command'.kind \in {"Refresh", "SetCurve"} \/ command.kind \in {"Refresh", "SetCurve"})
             => held_pwm' = held_pwm]_vars

\* C27 witness: with a fan held, a Refresh whose re-apply and whose
\* discover both failed has completed, and the fan is still held.
C27_Witness ==
    /\ cycle.kind = "Refresh"
    /\ CycleDone
    /\ cycle.reapply_err
    /\ cycle.err
    /\ DOMAIN held_pwm # {}

\* With a fan held, a SetCurve whose set_fan_curve failed has completed,
\* and the fan is still held.
HeldAfterFailedSetCurve ==
    /\ cycle.kind = "SetCurve"
    /\ CycleDone
    /\ cycle.err
    /\ DOMAIN held_pwm # {}

\* ======================================================================
\* LenovoFanController::set_pwm (platform/lenovo.rs)
\* ======================================================================

\* The fan ids handed to set_pwm, as text: the prefix and what follows it.
\* "fan0", "fan1", "fan4" (a number, no such fan), "fan", "fanx", "fan 1",
\* "pwm1", "1" and the empty string.
LenovoFanIds ==
    {<<"fan", "0">>, <<"fan", "1">>, <<"fan", "4">>, <<"fan">>, <<"fan", "x">>,
     <<"fan", Blank, "1">>, <<"pwm", "1">>, <<"1">>, <<>>}

\* The duties handed to set_pwm: the extremes, their neighbours, a mid value.
LenovoDuties == {0, 1, 150, 254, 255}

\* fan_ranges as discover() leaves it: nothing learned, fan 0 learned, both
\* learned (fan 1 from a table whose speeds are all equal).
LearnedRanges ==
    {EmptyMap,
     [k \in {0} |-> FanRpmRange(1000, 2100)],
     [k \in {0, 1} |-> IF k = 0 THEN FanRpmRange(1000, 2100)
                       ELSE FanRpmRange(DEFAULT_MIN_RPM, DEFAULT_MIN_RPM)]}

\* Mutant of parse_fan_id: what follows the prefix counts as 0 when it is no
\* number (unwrap_or).
parse_fan_id_or_zero(id) ==
    IF StartsWith(id, <<"fan">>)
    THEN OkOf(UnwrapOr(ParseU32(StripPrefix(id, <<"fan">>)), 0))
    ELSE FanNotFound(id)

\* fn parse_fan_id: fan_id.strip_prefix("fan").and_then(|n| n.parse::<u32>()
\* .ok()).ok_or_else(|| FanNotFound(fan_id))
parse_fan_id(id) ==
    IF StartsWith(id, <<"fan">>) /\ ParseU32(StripPrefix(id, <<"fan">>)) # None
    THEN OkOf(ParseU32(StripPrefix(id, <<"fan">>))[1])
    ELSE FanNotFound(id)

\* fn fan_rpm_range: the learned range of the fan, or the default one.
fan_rpm_range(ranges, numeric_id) ==
    IF numeric_id \in DOMAIN ranges THEN ranges[numeric_id]
    ELSE FanRpmRange(DEFAULT_MIN_RPM, DEFAULT_MAX_RPM)

\* The scripts of set_pwm: $fm.Fan_Set_FullSpeed(1 or 0) and
\* $fm.Fan_SetCurrentFanSpeed(numeric_id, target_rpm).
Fan_Set_FullSpeed(value) == [method |-> "Fan_Set_FullSpeed", value |-> value]
Fan_SetCurrentFanSpeed(numeric_id, rpm) ==
    [method |-> "Fan_SetCurrentFanSpeed", fan_id |-> numeric_id, rpm |-> rpm]

\* set_pwm up to its ps_command: the error of parse_fan_id, or the script
\* the duty selects.
set_pwm_script(ranges, id, pwm) ==
    LET numeric_id == parse_fan_id(id)
        limits == fan_rpm_range(ranges, numeric_id[2])
    IN  IF numeric_id[1] # "Ok"
        THEN [error |-> Some(numeric_id), script |-> None]
        ELSE [error |-> None,
              script |-> Some(IF pwm = 255 THEN Fan_Set_FullSpeed(1)
                              ELSE IF pwm = 0 THEN Fan_Set_FullSpeed(0)
                              ELSE Fan_SetCurrentFanSpeed(
                                       numeric_id[2],
                                       pwm_to_rpm(limits.min_rpm, limits.max_rpm, pwm)))]

\* The firmware's flag after a script took effect: Fan_Set_FullSpeed sets
\* it, the other methods are not addressed to it.
AfterScript(flag, script) ==
    IF script.method = "Fan_Set_FullSpeed" THEN script.value = 1 ELSE flag

\* ps_command: powershell ran the script, could not be launched, or ended
\* with a failure status (the method may or may not have taken effect).
PsOutcomes == {"ok", "not_launched", "failed"}

\* LenovoFanController::set_pwm(fan_id, pwm); `returned` keeps the arguments
\* beside the result.
LenovoSetPwm ==
    /\ returned = NotCalled
    /\ \E id \in LenovoFanIds, pwm \in LenovoDuties :
         LET plan == set_pwm_script(fan_ranges, id, pwm)
             args == [fan_id |-> id, pwm |-> pwm]
         IN  IF plan.script = None
             THEN /\ returned' = Returned("LenovoFanController::set_pwm",
                                          <<args, plan.error[1]>>)
                  /\ scripts' = scripts
                  /\ full_speed' = full_speed
             ELSE \E ps \in PsOutcomes :
                  /\ scripts' = Append(scripts, plan.script[1])
                  /\ returned' =
                       Returned("LenovoFanController::set_pwm",
                                <<args, CASE ps = "ok" -> Ok
                                          [] ps = "not_launched" ->
                                               Platform("failed to run powershell")
                                          [] ps = "failed" -> Platform("powershell error")>>)
                  /\ full_speed' \in
                       CASE ps = "ok" -> {AfterScript(full_speed, plan.script[1])}
                         [] ps = "not_launched" -> {full_speed}
                         [] ps = "failed" ->
                              {full_speed, AfterScript(full_speed, plan.script[1])}
    /\ UNCHANGED <<OtherThanLenovo, fan_ranges>>

LenovoInit ==
    /\ WorkerInit
    /\ CurveIdle
    /\ PwmIdle
    /\ LinuxIdle
    /\ EditIdle
    /\ CallIdle
    /\ output = <<>>
    /\ fan_ranges \in LearnedRanges
    /\ full_speed \in BOOLEAN

LenovoNext == LenovoSetPwm

\* One call of set_pwm on the vendor backend, with the ranges discover()
\* learned and the flag either way.
LenovoSpec == LenovoInit /\ [][LenovoNext]_vars

\* ----------------------------------------------------------------------
\* Claims about the vendor set_pwm
\* ----------------------------------------------------------------------

\* "fan<number>": the prefix followed by one numeral.
IsFanNumber(id) == Len(id) = 2 /\ id[1] = "fan" /\ \E d \in Decimal : d[1] = id[2]
NumberOf(id) == (CHOOSE d \in Decimal : d[1] = id[2])[2]

\* The range the claim names: the learned one, or the default one.
LearnedOrDefault(n) ==
    IF n \in DOMAIN fan_ranges THEN fan_ranges[n]
    ELSE [min_rpm |-> 1600, max_rpm |-> 4800]

\* C28: set_pwm on the vendor backend, for an id "fan<number>": with pwm 255
\* it issues Fan_Set_FullSpeed(1) and nothing else, and the flag is on when
\* it returns Ok; with pwm 0 it issues Fan_Set_FullSpeed(0) and nothing
\* else, and the flag is off when it returns Ok; with 0 < pwm < 255 it
\* issues only Fan_SetCurrentFanSpeed(number, pwm_to_rpm(learned or default
\* range, pwm)) and the flag stays as it was, whatever the call returns.  For
\* any other id it returns FanNotFound(id), issues nothing and the flag
\* stays as it was.
C28_FlagOnlyAtExtremes ==
    [][returned'.call = "LenovoFanController::set_pwm" /\ returned.call = "none" =>
         LET id == returned'.value[1].fan_id
             pwm == returned'.value[1].pwm
             result == returned'.value[2]
         IN  IF ~IsFanNumber(id)
             THEN /\ result = <<"FanNotFound", id>>
                  /\ scripts' = scripts
                  /\ full_speed' = full_speed
             ELSE /\ result[1] \in {"Ok", "Platform"}
                  /\ pwm = 255 =>
                       /\ scripts' = Append(scripts, [method |-> "Fan_Set_FullSpeed", value |-> 1])
                       /\ result = Ok => full_speed'
                  /\ pwm = 0 =>
                       /\ scripts' = Append(scripts, [method |-> "Fan_Set_FullSpeed", value |-> 0])
                       /\ result = Ok => ~full_speed'
                  /\ pwm \in 1..254 =>
                       /\ scripts' =
                            Append(scripts,
                                   [method |-> "Fan_SetCurrentFanSpeed",
                                    fan_id |-> NumberOf(id),
                                    rpm |-> pwm_to_rpm(LearnedOrDefault(NumberOf(id)).min_rpm,
                                                       LearnedOrDefault(NumberOf(id)).max_rpm,
                                                       pwm)])
                       /\ full_speed' = full_speed]_vars

\* C28 witness: with full speed on and the range 1000..2100 learned for
\* fan 0, set_pwm("fan0", 150) issued Fan_SetCurrentFanSpeed(0, 1647) only
\* and full speed is still on.
C28_Witness ==
    /\ returned = Returned("LenovoFanController::set_pwm",
                           <<[fan_id |-> <<"fan", "0">>, pwm |-> 150], Ok>>)
    /\ 0 \in DOMAIN fan_ranges
    /\ scripts = <<Fan_SetCurrentFanSpeed(0, 1647)>>
    /\ full_speed

\* set_pwm("fan4", 0), for a fan that does not exist, turned full speed off.
FullSpeedOffForAnyNumber ==
    /\ returned = Returned("LenovoFanController::set_pwm",
                           <<[fan_id |-> <<"fan", "4">>, pwm |-> 0], Ok>>)
    /\ scripts = <<Fan_Set_FullSpeed(0)>>
    /\ ~full_speed

\* set_pwm("fan 1", 255) failed with FanNotFound and issued nothing.
NotFoundIssuesNothing ==
    /\ returned.call = "LenovoFanController::set_pwm"
    /\ returned.value = <<[fan_id |-> <<"fan", Blank, "1">>, pwm |-> 255],
                          FanNotFound(<<"fan", Blank, "1">>)>>
    /\ scripts = <<>>

Waiting(type) == {i \in 1..Len(response_rx) : response_rx[i].type = type}

\* C30: a CurveData is put on the response queue only in the step in which
\* the initial discover() returns, as the first of the two responses
\* CurveData, FanData, with no FanData sent before it; the initial
\* discover() is made once; so at most one CurveData is ever waiting, none
\* once the frontend has cached the curves, and no Refresh cycle (nor any
\* command's cycle) sends one.
C30_CurveDataOnlyAtStartup ==
    /\ [][(\E i \in DOMAIN SentInStep : SentInStep[i] = "CurveData") =>
             /\ pc = "discover0"
             /\ SentInStep = <<"CurveData", "FanData">>
             /\ ~fans
             /\ Waiting("FanData") = {}]_vars
    /\ [][pc' = "discover0" => pc \in {"create", "discover0"}]_vars
    /\ [](/\ Cardinality(Waiting("CurveData")) <= 1
          /\ fan_curves => Waiting("CurveData") = {}
          /\ \A i \in 1..Len(cycle.resps) :
                cycle.resps[i] = "CurveData" => (cycle.kind = "start" /\ i = 1))

\* C30 witness: the frontend has cached the curves, and a later Refresh
\* cycle has answered FanData alone, which the frontend has drained.
C30_Witness ==
    /\ fan_curves
    /\ fans
    /\ cycle.kind = "Refresh"
    /\ CycleDone
    /\ cycle.resps = <<"FanData">>
    /\ response_rx = <<>>
    /\ connected

====
